---------------------------- MODULE Spec2Model ----------------------------
(***************************************************************************)
(* gPlanner: a client-side task planner (src/src/app/page.tsx).  The file  *)
(* holds three successive variants of one React component:                 *)
(*   first  variant  lines    1-1774  (stars / unitIndex buckets)          *)
(*   second variant  lines 1775-4911  (drag reclassifies by pointer angle, *)
(*                                     tasks renormalised when today moves)*)
(*   final  variant  lines 4913-7582                                       *)
(* Calendar dates (yyyy-MM-dd strings in the code) are day numbers here:   *)
(* the integer n is the n-th day after the day the system clock shows.     *)
(* JavaScript's NaN, null and an unparseable date are integers far outside *)
(* every range the planner's arithmetic reaches.                           *)
(***************************************************************************)
EXTENDS Integers, Sequences, FiniteSets, TLC

VARIABLES
    tasks,          \* useState<Task[]>: the task list
    today,          \* useState<string>: the user-adjustable reference date
    maxPerRegion,   \* useState<MaxPerRegion>: region -> capacity
    draggingId,     \* useState<string|null>: the task captured by the pointer
    mounted,        \* useState<boolean>: the load-from-storage effect has run
    storage,        \* localStorage[STORAGE_KEY]: the persisted task list
    storageMax,     \* localStorage[STORAGE_MAX_KEY]: the persisted capacities
    lastOp,         \* history: the handler that ran last and the alert it raised
    fnArg,          \* input of the pure function applied
    fnRes,          \* its result
    queued          \* state updates queued by the effects of the first render

vars == <<tasks, today, maxPerRegion, draggingId, mounted, storage,
          storageMax, lastOp, fnArg, fnRes, queued>>

appVars == <<tasks, today, maxPerRegion, draggingId, mounted, storage,
             storageMax, lastOp, queued>>

---------------------------------------------------------------------------
(* Bounds of the model *)

\* longest task list the handlers build
MaxTasks == 2
\* day counts fed to the pure bucketing functions range over
\* -DayMargin .. 3650 + DayMargin
DayMargin == 3

---------------------------------------------------------------------------
(* JavaScript values *)

NaN == -777777
JsNull == -888888
InvalidDate == -999999

IsNum(x) == x # NaN /\ x # JsNull

\* ToNumber: null converts to 0
ToNumber(x) == IF x = JsNull THEN 0 ELSE x

\* Math.max / Math.min: NaN if an argument is NaN
MathMax(a, b) ==
    LET x == ToNumber(a)
        y == ToNumber(b)
    IN  IF x = NaN \/ y = NaN THEN NaN ELSE IF x >= y THEN x ELSE y

MathMin(a, b) ==
    LET x == ToNumber(a)
        y == ToNumber(b)
    IN  IF x = NaN \/ y = NaN THEN NaN ELSE IF x <= y THEN x ELSE y

\* Math.round(num / den) for den > 0: the nearest integer, halves going up
RoundDiv(num, den) ==
    IF num = NaN THEN NaN ELSE (2 * ToNumber(num) + den) \div (2 * den)

\* const clamp = (x, min, max) => Math.max(min, Math.min(max, x))
clamp(x, min, max) == MathMax(min, MathMin(max, x))

---------------------------------------------------------------------------
(* Time-bucketing engine *)

Regions == {1, 2, 3, 4}
Buckets == {"days", "weeks", "months", "years"}

NoPlacement == [region |-> 0, bucket |-> "null"]

bucketFromDays_LooseWeeks(days) ==
    IF days = NaN THEN NoPlacement
    ELSE IF days >= 1 /\ days <= 7 THEN [region |-> 4, bucket |-> "days"]
    ELSE IF days >= 7 /\ days <= 29 THEN [region |-> 3, bucket |-> "weeks"]
    ELSE IF days >= 29 /\ days <= 365 THEN [region |-> 2, bucket |-> "months"]
    ELSE IF days >= 366 /\ days <= 3650 THEN [region |-> 1, bucket |-> "years"]
    ELSE NoPlacement

\* final variant: null (NoPlacement) outside 1..3650
bucketFromDays(days) ==
    IF days = NaN THEN NoPlacement
    ELSE IF days >= 1 /\ days <= 7 THEN [region |-> 4, bucket |-> "days"]
    ELSE IF days >= 8 /\ days <= 28 THEN [region |-> 3, bucket |-> "weeks"]
    ELSE IF days >= 29 /\ days <= 365 THEN [region |-> 2, bucket |-> "months"]
    ELSE IF days >= 366 /\ days <= 3650 THEN [region |-> 1, bucket |-> "years"]
    ELSE NoPlacement

\* first variant: unitIndex = clamp(round(local * (N - 1)) + 1, 1, N) with
\* local = (d - dMin) / (dMax - dMin)
unitIndexOf(d, N, dMin, dMax) ==
    clamp(RoundDiv((d - dMin) * (N - 1), dMax - dMin) + 1, 1, N)

\* first variant: never null; null/NaN -> 1y, d <= 0 -> 1, beyond 3650 clamped.
\* The label `${idx}d` is the pair of its number and its unit letter.
bucketFromDays1(days) ==
    IF days = JsNull \/ days = NaN
    THEN [stars |-> 1, unitIndex |-> 1, label |-> <<1, "y">>]
    ELSE
    LET d == IF days <= 0 THEN 1 ELSE days IN
    IF d <= 7 THEN
        LET idx == unitIndexOf(d, 7, 1, 7)
        IN  [stars |-> 4, unitIndex |-> idx, label |-> <<idx, "d">>]
    ELSE IF d <= 28 THEN
        LET idx == unitIndexOf(d, 4, 8, 28)
        IN  [stars |-> 3, unitIndex |-> idx, label |-> <<idx, "w">>]
    ELSE IF d <= 365 THEN
        LET idx == unitIndexOf(d, 12, 29, 365)
        IN  [stars |-> 2, unitIndex |-> idx, label |-> <<idx, "m">>]
    ELSE
        LET clampedDays == MathMin(MathMax(d, 366), 3650)
            idx == unitIndexOf(clampedDays, 10, 366, 3650)
        IN  [stars |-> 1, unitIndex |-> idx, label |-> <<idx, "y">>]


---------------------------------------------------------------------------
(* Dates *)

\* todayISO(): the calendar day the system clock shows; day 0 of the model
todayISO == 0

\* Math.ceil((to - from) / MS_PER_DAY) of two local midnights; NaN when a
\* string is no date
diffInDays(fromISO, toISO) ==
    IF fromISO = InvalidDate \/ toISO = InvalidDate THEN NaN
    ELSE toISO - fromISO

addDays(baseISO, days) ==
    IF baseISO = InvalidDate \/ days = NaN THEN InvalidDate
    ELSE baseISO + ToNumber(days)

---------------------------------------------------------------------------
(* Tasks *)

NoId == [kind |-> "none", n |-> 0]
\* `task-${Date.now()}-${Math.random()...}`: the n-th generated id
TaskId(n) == [kind |-> "task", n |-> n]
\* `csv-${i}`: the placeholder id of data row i
CsvId(i) == [kind |-> "csv", n |-> i]
\* an id read from a file's id column
FileId(k) == [kind |-> "file", n |-> k]

\* The fields of a Task the placement logic reads or writes; finishedAt is
\* TRUE when the field holds a timestamp.  The text fields (date, project,
\* projectTag, projectColor, task, createdAt) are carried along unread.
Task(id, deadline, region, bucket, remainingDays, finishedAt) ==
    [id |-> id, deadline |-> deadline, region |-> region,
     bucket |-> bucket, remainingDays |-> remainingDays,
     finishedAt |-> finishedAt]

MapSeq(s, F(_)) == [i \in 1..Len(s) |-> F(s[i])]

\* tasks.filter((t) => t.region === region && !t.finishedAt).length
regionCount(ts, region) ==
    Cardinality({i \in 1..Len(ts) :
                    ts[i].region = region /\ ~ts[i].finishedAt})

\* JSON.parse(JSON.stringify(task)): NaN is written as null
JsonTask(t) ==
    [t EXCEPT !.remainingDays = IF @ = NaN THEN JsNull ELSE @]

Persisted(ts) == MapSeq(ts, JsonTask)

DefaultMaxPerRegion == [r \in Regions |-> 10]

\* Number(e.target.value) || 1, then Math.max(1, ...)
CapacityFromInput(v) ==
    MathMax(1, IF v = NaN \/ v = 0 THEN 1 ELSE v)

Op(name, alert) == [name |-> name, alert |-> alert]

---------------------------------------------------------------------------
(* CSV decoding, final variant.  A cell's text is a sequence of characters; *)
(* a column the header lacks reads as the empty text (idx < 0 ? "" : ...).  *)
(* A date cell is given by what normalizeDateInput makes of its text.       *)

Digits == <<"0", "1", "2", "3", "4", "5", "6", "7", "8", "9">>
IsDigit(c) == \E i \in 1..10 : Digits[i] = c
DigitVal(c) == (CHOOSE i \in 1..10 : Digits[i] = c) - 1
IsSpace(c) == c = " " \/ c = "\t" \/ c = "\n" \/ c = "\r"

RECURSIVE SkipSpaces(_)
SkipSpaces(s) ==
    IF s # <<>> /\ IsSpace(Head(s)) THEN SkipSpaces(Tail(s)) ELSE s

\* value of the leading digits of s continuing the number acc
RECURSIVE DigitsValue(_, _)
DigitsValue(s, acc) ==
    IF s # <<>> /\ IsDigit(Head(s))
    THEN DigitsValue(Tail(s), 10 * acc + DigitVal(Head(s)))
    ELSE acc

\* parseInt(text, 10): leading blanks, a sign, then digits; NaN without a digit
parseInt(text) ==
    LET s == SkipSpaces(text)
        neg == s # <<>> /\ Head(s) = "-"
        body == IF s # <<>> /\ (Head(s) = "-" \/ Head(s) = "+")
                THEN Tail(s) ELSE s
    IN  IF body = <<>> \/ ~IsDigit(Head(body)) THEN NaN
        ELSE IF neg THEN 0 - DigitsValue(body, 0) ELSE DigitsValue(body, 0)

TextDays == <<"d", "a", "y", "s">>
TextWeeks == <<"w", "e", "e", "k", "s">>
TextMonths == <<"m", "o", "n", "t", "h", "s">>
TextYears == <<"y", "e", "a", "r", "s">>

\* ["days","weeks","months","years"].includes(rawBucket) ? rawBucket : "days"
bucketFromText(rawBucket) ==
    IF rawBucket = TextWeeks THEN "weeks"
    ELSE IF rawBucket = TextMonths THEN "months"
    ELSE IF rawBucket = TextYears THEN "years"
    ELSE "days"

\* Date cells.  kind "iso": yyyy-MM-dd of calendar day `day`;
\* "mdy": M/D/YYYY of calendar day `day`; "isoBad": text of the shape
\* yyyy-MM-dd that names no calendar day (2024-13-45); "empty"; "junk": text
\* no date parser accepts.
DateCell(kind, day) == [kind |-> kind, day |-> day]

\* null (JsNull) for empty or unparseable text; text of the shape yyyy-MM-dd
\* is returned as it stands, calendar day or not
normalizeDateInput(cell) ==
    IF cell.kind = "empty" THEN JsNull
    ELSE IF cell.kind = "iso" THEN cell.day
    ELSE IF cell.kind = "isoBad" THEN InvalidDate
    ELSE IF cell.kind = "mdy" THEN cell.day
    ELSE JsNull

\* a ?? b
Coalesce(a, b) == IF a = JsNull THEN b ELSE a

Row(id, date, deadline, region, bucket, remainingDays, finishedAt) ==
    [id |-> id, date |-> date, deadline |-> deadline, region |-> region,
     bucket |-> bucket, remainingDays |-> remainingDays,
     finishedAt |-> finishedAt]

parseCSVRow_TrustsFile(i, cols) ==
    LET id == IF cols.id = NoId THEN CsvId(i) ELSE cols.id
        date == Coalesce(normalizeDateInput(cols.date), todayISO)
        deadline == Coalesce(normalizeDateInput(cols.deadline), date)
        candidateRemaining == diffInDays(todayISO, deadline)
        recomputed == bucketFromDays(candidateRemaining)
        parsedRegion == parseInt(cols.region)
        region == IF parsedRegion \in {1, 2, 3, 4} THEN parsedRegion
                  ELSE IF recomputed # NoPlacement THEN recomputed.region
                  ELSE 4
        bucket == IF cols.bucket # <<>> THEN bucketFromText(cols.bucket)
                  ELSE IF recomputed # NoPlacement THEN recomputed.bucket
                  ELSE "days"
        remainingDays == MathMax(1, candidateRemaining)
    IN  Task(id, deadline, region, bucket, remainingDays, cols.finishedAt)

\* the body of parseCSV's loop for data row i
parseCSVRow(i, cols) ==
    LET id == IF cols.id = NoId THEN CsvId(i) ELSE cols.id
        date == Coalesce(normalizeDateInput(cols.date), todayISO)
        deadline == Coalesce(normalizeDateInput(cols.deadline), date)
        candidateRemaining == diffInDays(todayISO, deadline)
        recomputed == bucketFromDays(candidateRemaining)
        parsedRegion == parseInt(cols.region)
        region == IF recomputed # NoPlacement THEN recomputed.region
                  ELSE IF parsedRegion \in {1, 2, 3, 4} THEN parsedRegion
                  ELSE 4
        bucket == IF recomputed # NoPlacement THEN recomputed.bucket
                  ELSE bucketFromText(cols.bucket)
        remainingDays ==
            IF recomputed # NoPlacement
            THEN MathMax(1, candidateRemaining)
            ELSE MathMax(1, parseInt(IF cols.remainingDays = <<>>
                                     THEN <<"1">>
                                     ELSE cols.remainingDays))
    IN  Task(id, deadline, region, bucket, remainingDays, cols.finishedAt)

\* parseCSV on the data rows of a file (blank lines already dropped)
parseCSV(rows) == [i \in 1..Len(rows) |-> parseCSVRow(i, rows[i])]

---------------------------------------------------------------------------
(* Geometry.  A pointer position is given in polar form about the centre:  *)
(* dist = sqrt(dx*dx + dy*dy) in pixels and angleDeg = atan2(cy - py, dx)  *)
(* in degrees, both whole numbers.  Radius factors are in hundredths.      *)

\* useState(900); the resize effect sets min(max(innerWidth - 820, 740), 1080),
\* which is 900 again in a window 1720 pixels wide
plannerSize == 900
padding == 60
maxR == plannerSize \div 2 - padding

\* ringRadii[0] / maxR = 0.25 and maxRadiusFactor = 0.97, in hundredths
minRadiusFactor == 25
maxRadiusFactor == 97
radiusFactorRange == maxRadiusFactor - minRadiusFactor

stepsForBucket(bucket) ==
    CASE bucket = "days" -> 7
      [] bucket = "weeks" -> 4
      [] bucket = "months" -> 12
      [] bucket = "years" -> 10

bucketByRegion(region) ==
    CASE region = 4 -> "days"
      [] region = 3 -> "weeks"
      [] region = 2 -> "months"
      [] region = 1 -> "years"

remainingToStep_Reversed(t) ==
    LET n == stepsForBucket(t.bucket) IN
    n + 1 - (IF t.bucket = "days" THEN MathMin(MathMax(t.remainingDays, 1), n)
             ELSE MathMin(MathMax(RoundDiv(t.remainingDays, 7), 1), n))

remainingToStep(t) ==
    LET n == stepsForBucket(t.bucket) IN
    IF t.bucket = "days" THEN MathMin(MathMax(t.remainingDays, 1), n)
    ELSE IF t.bucket = "weeks"
    THEN MathMin(MathMax(RoundDiv(t.remainingDays, 7), 1), n)
    ELSE IF t.bucket = "months"
    THEN MathMin(MathMax(RoundDiv(t.remainingDays, 30), 1), n)
    ELSE MathMin(MathMax(RoundDiv(t.remainingDays, 365), 1), n)

stepToRemainingDays(bucket, step) ==
    LET s == MathMax(1, step) IN
    CASE bucket = "days" -> s
      [] bucket = "weeks" -> s * 7
      [] bucket = "months" -> s * 30
      [] bucket = "years" -> s * 365

\* distFactor = min(max(dist / maxR, minRadiusFactor), maxRadiusFactor),
\* times 100 * maxR
distFactorScaled(dist) ==
    MathMin(MathMax(100 * dist, minRadiusFactor * maxR),
            maxRadiusFactor * maxR)

\* step = Math.round((1 - progress) * (nSteps - 1) + 1), clamped to 1..nSteps,
\* with progress = (distFactor - minRadiusFactor) / radiusFactorRange
stepFromDist(dist, nSteps) ==
    IF nSteps <= 1 THEN 1
    ELSE clamp(RoundDiv((maxRadiusFactor * maxR - distFactorScaled(dist))
                            * (nSteps - 1),
                        radiusFactorRange * maxR) + 1,
               1, nSteps)

\* JavaScript's %: the sign of the dividend
JsMod(a, b) == IF a >= 0 THEN a % b ELSE 0 - ((0 - a) % b)

normalizeAngle(deg) == JsMod(JsMod(deg, 360) + 360, 360)

regionAngles(region) ==
    CASE region = 4 -> [start |-> 90, end |-> 180]
      [] region = 3 -> [start |-> 0, end |-> 90]
      [] region = 2 -> [start |-> 180, end |-> 270]
      [] region = 1 -> [start |-> 270, end |-> 360]

\* does the wedge of `region` accept the normalised angle?
angleInRange(angle, region) ==
    LET start == normalizeAngle(regionAngles(region).start)
        end == normalizeAngle(regionAngles(region).end)
    IN  IF start <= end THEN angle >= start /\ angle <= end
        ELSE angle >= start \/ angle <= end

\* second variant: Object.entries(regionAngles) lists the keys 1, 2, 3, 4 in
\* ascending order; the first wedge that accepts the angle wins
regionFromAngle(deg) ==
    LET angle == normalizeAngle(deg) IN
    IF angleInRange(angle, 1) THEN 1
    ELSE IF angleInRange(angle, 2) THEN 2
    ELSE IF angleInRange(angle, 3) THEN 3
    ELSE IF angleInRange(angle, 4) THEN 4
    ELSE 4

---------------------------------------------------------------------------
(* Inputs the handlers are driven with *)

\* values typed into the Today field ("" reads as no date)
TodayChoices == {0, 7}
\* values typed into a Deadline field
DeadlineChoices == {0, 3, 10, 3660, InvalidDate}
\* values typed into a "Max tasks / region" field
MaxCap == 1
CapacityChoices == 0..MaxCap
\* the regions whose capacity field is edited
CapacityRegions == {4}
\* pointer distances from the centre, in pixels
DistChoices == {3, 379}
\* pointer angles atan2 returns, in degrees
AngleChoices == {0, 45, 90, 135, 180, -135, -90, -45}
\* pointer angles of the drags: one inside each wedge
DragAngles == {45, 135, -135, -45}

\* rows of the files imported into the running planner: a deadline 5 days
\* out and a deadline of today, both with stale placement columns
MaxRows == 2
ImportRows ==
    { Row(FileId(1), DateCell("empty", 0), DateCell("iso", 5),
          <<"1">>, TextYears, <<"4", "0", "0">>, FALSE),
      Row(NoId, DateCell("empty", 0), DateCell("iso", 0),
          <<"1">>, TextYears, <<"4", "0", "0">>, FALSE) }
ImportFiles == UNION {[1..n -> ImportRows] : n \in 0..MaxRows}

---------------------------------------------------------------------------
(* Final variant: the Planner component *)

\* no setState call is waiting for the next render
NoUpdates ==
    [pending |-> FALSE, tasks |-> <<>>, maxPerRegion |-> DefaultMaxPerRegion]

AppInit ==
    /\ queued = NoUpdates
    /\ tasks = <<>>
    /\ today = todayISO
    /\ maxPerRegion = DefaultMaxPerRegion
    /\ draggingId = NoId
    /\ mounted = FALSE
    /\ storage = <<>>
    /\ storageMax = DefaultMaxPerRegion
    /\ lastOp = Op("init", "")

\* no pure function has been applied
NoResult == [fn |-> "none"]

Init ==
    /\ AppInit
    /\ fnArg = 0
    /\ fnRes = NoResult

\* setTasks(next) followed by the persist-tasks effect
CommitTasks(next) ==
    /\ tasks' = next
    /\ storage' = Persisted(next)

\* load-from-storage effect, then the persist effects of the next render
Mount ==
    /\ ~mounted
    /\ mounted' = TRUE
    /\ CommitTasks(storage)
    /\ maxPerRegion' = storageMax
    /\ storageMax' = storageMax
    /\ lastOp' = Op("mount", "")
    /\ UNCHANGED <<today, draggingId,
                       fnArg, fnRes, queued>>

\* Pointer-drag is modal: the pointer that holds a dot is captured by the
\* drawing surface and presses nothing else until it is released
Idle == mounted /\ draggingId = NoId

\* the page is loaded anew: every useState starts from its initial value
Reload ==
    /\ Idle
    /\ mounted' = FALSE
    /\ tasks' = <<>>
    /\ today' = todayISO
    /\ maxPerRegion' = DefaultMaxPerRegion
    /\ draggingId' = NoId
    /\ lastOp' = Op("reload", "")
    /\ UNCHANGED <<storage, storageMax,
                       fnArg, fnRes, queued>>

\* Today input onChange
SetToday ==
    \E d \in TodayChoices :
        /\ Idle
        /\ today' = d
        /\ lastOp' = Op("setToday", "")
        /\ UNCHANGED <<tasks, maxPerRegion, draggingId, mounted, storage,
                       storageMax,
                       fnArg, fnRes, queued>>

\* "Max tasks / region" input onChange, then the persist-maxPerRegion effect
SetMaxPerRegion ==
    \E r \in CapacityRegions, v \in CapacityChoices :
        /\ Idle
        /\ maxPerRegion' = [maxPerRegion EXCEPT ![r] = CapacityFromInput(v)]
        /\ storageMax' = maxPerRegion'
        /\ lastOp' = Op("setMaxPerRegion", "")
        /\ UNCHANGED <<tasks, today, draggingId, mounted, storage,
                       fnArg, fnRes, queued>>

\* `task-${Date.now()}-${Math.random()...}` is an id no task has and no
\* state refers to: the first such id
UsedIds ==
    {tasks[i].id : i \in 1..Len(tasks)}
        \cup {storage[i].id : i \in 1..Len(storage)} \cup {draggingId}
freshId ==
    TaskId(CHOOSE n \in 1..(2 * MaxTasks + 1) :
              /\ TaskId(n) \notin UsedIds
              /\ \A m \in 1..(n - 1) : TaskId(m) \in UsedIds)

Rejected(op) ==
    /\ lastOp' = op
    /\ UNCHANGED <<tasks, today, maxPerRegion, draggingId, mounted, storage,
                   storageMax,
                       fnArg, fnRes, queued>>

addTask_NoRangeCheck(newDeadline, hasText) ==
    LET remaining == diffInDays(today, newDeadline)
        info == IF bucketFromDays(remaining) = NoPlacement
                THEN [region |-> 4, bucket |-> "days"]
                ELSE bucketFromDays(remaining)
        op(alert) == Op("addTask", alert)
    IN  IF newDeadline = InvalidDate \/ ~hasText THEN Rejected(op(""))
        ELSE IF regionCount(tasks, info.region) >= maxPerRegion[info.region]
        THEN Rejected(op("capacity"))
        ELSE
            /\ Len(tasks) < MaxTasks
            /\ CommitTasks(Append(tasks,
                   Task(freshId, newDeadline, info.region,
                        info.bucket, remaining, FALSE)))
            /\ lastOp' = op("")
            /\ UNCHANGED <<today, maxPerRegion, draggingId, mounted,
                           storageMax,
                       fnArg, fnRes, queued>>

addTask_NoCapacityCheck(newDeadline, hasText) ==
    LET remaining == diffInDays(today, newDeadline)
        info == bucketFromDays(remaining)
        op(alert) == Op("addTask", alert)
    IN  IF newDeadline = InvalidDate \/ ~hasText THEN Rejected(op(""))
        ELSE IF info = NoPlacement THEN Rejected(op("range"))
        ELSE
            /\ Len(tasks) < MaxTasks
            /\ CommitTasks(Append(tasks,
                   Task(freshId, newDeadline, info.region,
                        info.bucket, remaining, FALSE)))
            /\ lastOp' = op("")
            /\ UNCHANGED <<today, maxPerRegion, draggingId, mounted,
                           storageMax,
                       fnArg, fnRes, queued>>

\* addTask with the form fields newDeadline and newTask (hasText: newTask is
\* not blank)
addTaskWith(newDeadline, hasText) ==
    LET remaining == diffInDays(today, newDeadline)
        info == bucketFromDays(remaining)
        op(alert) == Op("addTask", alert)
    IN  IF newDeadline = InvalidDate \/ ~hasText THEN Rejected(op(""))
        ELSE IF info = NoPlacement THEN Rejected(op("range"))
        ELSE IF regionCount(tasks, info.region) >= maxPerRegion[info.region]
        THEN Rejected(op("capacity"))
        ELSE
            /\ Len(tasks) < MaxTasks
            /\ CommitTasks(Append(tasks,
                   Task(freshId, newDeadline, info.region,
                        info.bucket, remaining, FALSE)))
            /\ lastOp' = op("")
            /\ UNCHANGED <<today, maxPerRegion, draggingId, mounted,
                           storageMax,
                       fnArg, fnRes, queued>>

addTask ==
    \E newDeadline \in DeadlineChoices, hasText \in BOOLEAN :
        Idle /\ addTaskWith(newDeadline, hasText)

TaskIds == {tasks[i].id : i \in 1..Len(tasks)}

deleteTask ==
    \E id \in TaskIds :
        /\ Idle
        /\ CommitTasks(SelectSeq(tasks, LAMBDA t : t.id # id))
        /\ lastOp' = Op("deleteTask", "")
        /\ UNCHANGED <<today, maxPerRegion, draggingId, mounted, storageMax,
                       fnArg, fnRes, queued>>

markDone ==
    \E id \in TaskIds :
        /\ Idle
        /\ CommitTasks(MapSeq(tasks,
               LAMBDA t : IF t.id = id THEN [t EXCEPT !.finishedAt = TRUE]
                          ELSE t))
        /\ lastOp' = Op("markDone", "")
        /\ UNCHANGED <<today, maxPerRegion, draggingId, mounted, storageMax,
                       fnArg, fnRes, queued>>
\* saveEdit with editTask, the copy of a task the edit dialog holds
saveEditWith(editTask) ==
    LET remaining == diffInDays(today, editTask.deadline)
        info == bucketFromDays(remaining)
        op(alert) == Op("saveEdit", alert)
    IN  IF info = NoPlacement THEN Rejected(op("range"))
        ELSE
            /\ CommitTasks(MapSeq(tasks,
                   LAMBDA t : IF t.id = editTask.id
                              THEN [editTask EXCEPT
                                       !.region = info.region,
                                       !.bucket = info.bucket,
                                       !.remainingDays = remaining]
                              ELSE t))
            /\ lastOp' = op("")
            /\ UNCHANGED <<today, maxPerRegion, draggingId, mounted,
                           storageMax,
                       fnArg, fnRes, queued>>

\* openEdit(task) copies the task into the modal edit dialog, the Deadline
\* field of the dialog is set, and Save is pressed
saveEdit ==
    \E i \in 1..Len(tasks), deadline \in DeadlineChoices :
        Idle /\ saveEditWith([tasks[i] EXCEPT !.deadline = deadline])

\* the dots drawn are those of plottedTasks: the unfinished tasks
plottedIds == {tasks[i].id : i \in {j \in 1..Len(tasks) : ~tasks[j].finishedAt}}

handleDotPointerDown ==
    \E id \in plottedIds :
        /\ mounted
        /\ draggingId' = id
        /\ lastOp' = Op("pointerDown", "")
        /\ UNCHANGED <<tasks, today, maxPerRegion, mounted, storage,
                       storageMax,
                       fnArg, fnRes, queued>>

\* the task a pointer-move at distance dist leaves in place of t
draggedTask(t, dist) ==
    LET nSteps == stepsForBucket(t.bucket)
        step == stepFromDist(dist, nSteps)
        newRemaining == stepToRemainingDays(t.bucket, step)
        newDeadline == addDays(today, newRemaining)
    IN  [t EXCEPT !.remainingDays = newRemaining, !.deadline = newDeadline]

handleDotPointerMoveWith(dist) ==
    LET op == Op("pointerMove", "") IN
    IF draggingId = NoId \/ dist < 5 THEN Rejected(op)
    ELSE
        /\ CommitTasks(MapSeq(tasks,
               LAMBDA t : IF t.id # draggingId THEN t
                          ELSE draggedTask(t, dist)))
        /\ lastOp' = op
        /\ UNCHANGED <<today, maxPerRegion, draggingId, mounted, storageMax,
                       fnArg, fnRes, queued>>

handleDotPointerMove ==
    \E dist \in DistChoices : mounted /\ handleDotPointerMoveWith(dist)

\* onPointerUp and onPointerLeave
handleDotPointerUp ==
    /\ mounted
    /\ draggingId # NoId
    /\ draggingId' = NoId
    /\ lastOp' = Op("pointerUp", "")
    /\ UNCHANGED <<tasks, today, maxPerRegion, mounted, storage, storageMax,
                       fnArg, fnRes, queued>>

\* reader.onload of handleCSVFile with the file's data rows
handleCSVFileWith(rows) ==
    LET parsed == parseCSV(rows)
        op(alert) == Op("handleCSVFile", alert)
    IN  IF Len(parsed) = 0 THEN Rejected(op("No tasks found in CSV."))
        ELSE
            /\ CommitTasks(parsed)
            /\ lastOp' = op("")
            /\ UNCHANGED <<today, maxPerRegion, draggingId, mounted,
                           storageMax,
                       fnArg, fnRes, queued>>

handleCSVFile ==
    \E rows \in ImportFiles : Idle /\ handleCSVFileWith(rows)

loadFromURL_ClearsOnFailure(outcome, rows) ==
    LET parsed == parseCSV(rows)
        op(alert) == Op("loadFromURL", alert)
    IN  /\ CommitTasks(IF outcome = "ok" THEN parsed ELSE <<>>)
        /\ lastOp' = op(IF outcome = "throws"
                        THEN "Error fetching CSV from URL."
                        ELSE IF outcome = "notOk" THEN "Failed to fetch CSV."
                        ELSE IF Len(parsed) = 0
                        THEN "No tasks found in CSV file."
                        ELSE "")
        /\ UNCHANGED <<today, maxPerRegion, draggingId, mounted,
                       storageMax,
                       fnArg, fnRes, queued>>

\* loadFromURL: the fetch throws, answers with a status that is not ok, or
\* delivers the file's data rows
loadFromURLWith(outcome, rows) ==
    LET parsed == parseCSV(rows)
        op(alert) == Op("loadFromURL", alert)
    IN  IF outcome = "throws"
        THEN Rejected(op("Error fetching CSV from URL."))
        ELSE IF outcome = "notOk"
        THEN Rejected(op("Failed to fetch CSV."))
        ELSE IF Len(parsed) = 0
        THEN Rejected(op("No tasks found in CSV file."))
        ELSE
            /\ CommitTasks(parsed)
            /\ lastOp' = op("")
            /\ UNCHANGED <<today, maxPerRegion, draggingId, mounted,
                           storageMax,
                       fnArg, fnRes, queued>>

loadFromURL ==
    \/ \E outcome \in {"throws", "notOk"} :
          Idle /\ loadFromURLWith(outcome, <<>>)
    \/ \E rows \in ImportFiles : Idle /\ loadFromURLWith("ok", rows)

Next ==
    \/ Mount
    \/ Reload
    \/ SetToday
    \/ SetMaxPerRegion
    \/ addTask
    \/ deleteTask
    \/ markDone
    \/ saveEdit
    \/ handleDotPointerDown
    \/ handleDotPointerMove
    \/ handleDotPointerUp
    \/ handleCSVFile
    \/ loadFromURL

Spec == Init /\ [][Next]_vars

\* the placement addTask and saveEdit compute for a deadline
placementOf(deadline) == bucketFromDays(diffInDays(today, deadline))

\* d = diffInDays(today, deadline) is a number that is <= 0 or > 3650
OutOfRange(deadline) ==
    LET d == diffInDays(today, deadline)
    IN  d # NaN /\ (d <= 0 \/ d > 3650)

\* the region holds at least maxPerRegion[region] unfinished tasks
RegionFull(region) == regionCount(tasks, region) >= maxPerRegion[region]

\* C2: addTask and saveEdit reject every deadline whose day offset
\* d = diffInDays(today, deadline) is <= 0 or > 3650: the step leaves the
\* task list as it was (no step that changes the list is an addTask or a
\* saveEdit with such a deadline)
C2_OutOfRangeDeadlineRejected ==
    [][(Idle /\ tasks' # tasks) =>
          /\ \A newDeadline \in DeadlineChoices, hasText \in BOOLEAN :
                OutOfRange(newDeadline)
                    => ~addTaskWith(newDeadline, hasText)
          /\ \A i \in 1..Len(tasks), deadline \in DeadlineChoices :
                OutOfRange(deadline)
                    => ~saveEditWith([tasks[i] EXCEPT
                                         !.deadline = deadline])]_vars

\* a deadline out of range has been refused while the list held a task
C2_Witness ==
    /\ lastOp = Op("addTask", "range")
    /\ Len(tasks) = 1

\* C3: whenever the unfinished tasks of a region number maxPerRegion[region]
\* or more, addTask with a deadline that classifies into that region is
\* rejected: the task list (and so its length) is unchanged (no step that
\* changes the list is an addTask with such a deadline)
C3_AddIntoFullRegionRejected ==
    [][(Idle /\ (tasks' # tasks \/ Len(tasks') # Len(tasks))) =>
          \A newDeadline \in DeadlineChoices :
              (/\ placementOf(newDeadline) # NoPlacement
               /\ RegionFull(placementOf(newDeadline).region))
                  => ~addTaskWith(newDeadline, TRUE)]_vars

\* region 4 holds as many unfinished tasks as maxPerRegion[4] allows, and
\* one more has been refused
C3_Witness ==
    /\ lastOp = Op("addTask", "capacity")
    /\ regionCount(tasks, 4) = maxPerRegion[4]

\* C4: saveEdit that moves an unfinished task into a different region that
\* already holds maxPerRegion unfinished tasks is rejected and changes
\* nothing
C4_EditIntoFullRegionRejected ==
    [][\A i \in 1..Len(tasks), deadline \in DeadlineChoices :
          (/\ Idle
           /\ saveEditWith([tasks[i] EXCEPT !.deadline = deadline])
           /\ ~tasks[i].finishedAt
           /\ placementOf(deadline) # NoPlacement
           /\ placementOf(deadline).region # tasks[i].region
           /\ RegionFull(placementOf(deadline).region))
              => tasks' = tasks]_vars

\* C6: in every state the planner reaches, each unfinished task whose
\* deadline lies 1..3650 days after today has the region and bucket of
\* bucketFromDays(diffInDays(today, deadline))
C6_PlacementFollowsToday ==
    \A i \in 1..Len(tasks) :
        (~tasks[i].finishedAt /\ placementOf(tasks[i].deadline) # NoPlacement)
            => /\ tasks[i].region = placementOf(tasks[i].deadline).region
               /\ tasks[i].bucket = placementOf(tasks[i].deadline).bucket

\* C8: after a pointer-move that drags, the captured task satisfies
\* region = bucketFromDays(remainingDays).region
C8_DragKeepsRegionOfRemainingDays ==
    [][\A dist \in DistChoices :
          (mounted /\ handleDotPointerMoveWith(dist)
                   /\ draggingId # NoId /\ dist >= 5)
              => \A i \in 1..Len(tasks) :
                    tasks[i].id = draggingId
                        => tasks'[i].region
                             = bucketFromDays(tasks'[i].remainingDays).region]_vars

---------------------------------------------------------------------------
(* Second variant (lines 1775-4911).  Its bucketFromDays (1958-1966),      *)
(* diffInDays, addDays, addTask (2833-2877), deleteTask, markDone, saveEdit *)
(* (2898-2930), handleDotPointerUp, stepsForBucket, stepToRemainingDays and *)
(* the capacity inputs have the text of the final variant's; the planner is *)
(* drawn at the size of the final variant (a window 1720 pixels wide).     *)

\* the effect on [today]: every task, finished or not, is placed anew
renormalize(ts, day) ==
    MapSeq(ts, LAMBDA task :
        LET liveRemaining == MathMax(0, diffInDays(day, task.deadline))
            found == bucketFromDays(MathMax(1, liveRemaining))
            placement == IF found = NoPlacement
                         THEN [region |-> task.region, bucket |-> task.bucket]
                         ELSE found
        IN  [task EXCEPT !.remainingDays = liveRemaining,
                         !.region = placement.region,
                         !.bucket = placement.bucket])

\* the effects of the first render in their order: load-from-storage queues
\* setTasks(parsed), the effect on [today] queues its updater behind it
Mount2 ==
    /\ ~mounted
    /\ mounted' = TRUE
    /\ CommitTasks(renormalize(storage, today))
    /\ maxPerRegion' = storageMax
    /\ storageMax' = storageMax
    /\ lastOp' = Op("mount", "")
    /\ UNCHANGED <<today, draggingId, fnArg, fnRes, queued>>

\* Today input onChange; the effect on [today] runs when the value changed
SetToday2 ==
    \E d \in TodayChoices :
        /\ Idle
        /\ today' = d
        /\ CommitTasks(IF d = today THEN tasks ELSE renormalize(tasks, d))
        /\ lastOp' = Op("setToday", "")
        /\ UNCHANGED <<maxPerRegion, draggingId, mounted, storageMax,
                       fnArg, fnRes, queued>>

\* plottedTasks: the finished tasks are drawn when showCompletedOnMap is set
plottedIds2(showCompletedOnMap) ==
    {tasks[i].id : i \in {j \in 1..Len(tasks) :
                             showCompletedOnMap \/ ~tasks[j].finishedAt}}

handleDotPointerDown2 ==
    \E showCompletedOnMap \in BOOLEAN :
        \E id \in plottedIds2(showCompletedOnMap) :
            /\ mounted
            /\ draggingId' = id
            /\ lastOp' = Op("pointerDown", "")
            /\ UNCHANGED <<tasks, today, maxPerRegion, mounted, storage,
                           storageMax, fnArg, fnRes, queued>>

\* the task a pointer-move at (dist, angleDeg) leaves in place of t
draggedTask2(t, dist, angleDeg) ==
    LET newRegion == regionFromAngle(angleDeg)
        newBucket == bucketByRegion(newRegion)
        nSteps == stepsForBucket(newBucket)
        step == stepFromDist(dist, nSteps)
        newRemaining == stepToRemainingDays(newBucket, step)
        newDeadline == addDays(today, newRemaining)
    IN  [t EXCEPT !.remainingDays = newRemaining, !.deadline = newDeadline,
                  !.bucket = newBucket, !.region = newRegion]

handleDotPointerMove2With(dist, angleDeg) ==
    LET op == Op("pointerMove", "") IN
    IF draggingId = NoId \/ dist < 5 THEN Rejected(op)
    ELSE
        /\ CommitTasks(MapSeq(tasks,
               LAMBDA t : IF t.id # draggingId THEN t
                          ELSE draggedTask2(t, dist, angleDeg)))
        /\ lastOp' = op
        /\ UNCHANGED <<today, maxPerRegion, draggingId, mounted, storageMax,
                       fnArg, fnRes, queued>>

handleDotPointerMove2 ==
    \E dist \in DistChoices, angleDeg \in DragAngles :
        mounted /\ handleDotPointerMove2With(dist, angleDeg)

\* String.prototype.toLowerCase
UpperLetters == <<"A", "B", "C", "D", "E", "F", "G", "H", "I", "J", "K",
                  "L", "M", "N", "O", "P", "Q", "R", "S", "T", "U", "V",
                  "W", "X", "Y", "Z">>
LowerLetters == <<"a", "b", "c", "d", "e", "f", "g", "h", "i", "j", "k",
                  "l", "m", "n", "o", "p", "q", "r", "s", "t", "u", "v",
                  "w", "x", "y", "z">>
toLowerCase(text) ==
    [k \in 1..Len(text) |->
        IF \E j \in 1..Len(UpperLetters) : UpperLetters[j] = text[k]
        THEN LowerLetters[CHOOSE j \in 1..Len(UpperLetters) :
                             UpperLetters[j] = text[k]]
        ELSE text[k]]

RECURSIVE DropTrailingSpaces(_)
DropTrailingSpaces(text) ==
    IF text # <<>> /\ IsSpace(text[Len(text)])
    THEN DropTrailingSpaces(SubSeq(text, 1, Len(text) - 1))
    ELSE text

\* String.prototype.trim
trim(text) == DropTrailingSpaces(SkipSpaces(text))

\* second variant's coerceBucket: trimmed, lower-cased, singular accepted
coerceBucket(v) ==
    LET t == toLowerCase(trim(v)) IN
    IF t = TextDays \/ t = <<"d", "a", "y">> THEN "days"
    ELSE IF t = TextWeeks \/ t = <<"w", "e", "e", "k">> THEN "weeks"
    ELSE IF t = TextMonths \/ t = <<"m", "o", "n", "t", "h">> THEN "months"
    ELSE IF t = TextYears \/ t = <<"y", "e", "a", "r">> THEN "years"
    ELSE "days"

\* the normalizeDateInput local to the second variant's parseCSV: text that
\* starts yyyy-MM-dd gives those ten characters, other text goes to Date
normalizeDateInput2(cell) ==
    IF cell.kind = "empty" THEN JsNull
    ELSE IF cell.kind = "iso" THEN cell.day
    ELSE IF cell.kind = "isoBad" THEN InvalidDate
    ELSE IF cell.kind = "mdy" THEN cell.day
    ELSE JsNull

\* second variant's placementFromDeadline: null (NoPlacement) when the
\* deadline names no calendar day, else the placement of max(1, days)
placementFromDeadline(deadlineISO) ==
    IF deadlineISO = InvalidDate THEN NoPlacement
    ELSE
    LET clampedDays == MathMax(1, deadlineISO - todayISO)
        found == bucketFromDays(clampedDays)
        placement == IF found = NoPlacement
                     THEN [region |-> 4, bucket |-> "days"]
                     ELSE found
    IN  [remainingDays |-> clampedDays, region |-> placement.region,
         bucket |-> placement.bucket]

\* the body of the second variant's parseCSV loop for data row i of a file
\* whose header has the columns region, bucket, remainingDays and createdAt
parseCSVRow2(i, cols) ==
    LET id == IF cols.id = NoId THEN CsvId(i) ELSE cols.id
        date == Coalesce(normalizeDateInput2(cols.date), todayISO)
        deadline == Coalesce(normalizeDateInput2(cols.deadline), date)
        deadlinePlacement == placementFromDeadline(deadline)
        parsedRegion == parseInt(IF cols.region = <<>> THEN <<"4">>
                                 ELSE cols.region)
        region == IF deadlinePlacement # NoPlacement
                  THEN deadlinePlacement.region
                  ELSE IF parsedRegion = NaN \/ parsedRegion = 0 THEN 4
                  ELSE parsedRegion
        bucket == IF deadlinePlacement # NoPlacement
                  THEN deadlinePlacement.bucket
                  ELSE coerceBucket(IF cols.bucket = <<>> THEN TextDays
                                    ELSE cols.bucket)
        remainingDays ==
            IF deadlinePlacement # NoPlacement
            THEN deadlinePlacement.remainingDays
            ELSE MathMax(1, parseInt(IF cols.remainingDays = <<>>
                                     THEN <<"1">>
                                     ELSE cols.remainingDays))
    IN  Task(id, deadline, region, bucket, remainingDays, cols.finishedAt)

parseCSV2(rows) == [i \in 1..Len(rows) |-> parseCSVRow2(i, rows[i])]

handleCSVFile2With(rows) ==
    LET parsed == parseCSV2(rows)
        op(alert) == Op("handleCSVFile", alert)
    IN  IF Len(parsed) = 0 THEN Rejected(op("No tasks found in CSV."))
        ELSE
            /\ CommitTasks(parsed)
            /\ lastOp' = op("")
            /\ UNCHANGED <<today, maxPerRegion, draggingId, mounted,
                           storageMax, fnArg, fnRes, queued>>

handleCSVFile2 ==
    \E rows \in ImportFiles : Idle /\ handleCSVFile2With(rows)

loadFromURL2With(outcome, rows) ==
    LET parsed == parseCSV2(rows)
        op(alert) == Op("loadFromURL", alert)
    IN  IF outcome = "throws"
        THEN Rejected(op("Error fetching CSV from URL."))
        ELSE IF outcome = "notOk"
        THEN Rejected(op("Failed to fetch CSV."))
        ELSE IF Len(parsed) = 0
        THEN Rejected(op("No tasks found in CSV file."))
        ELSE
            /\ CommitTasks(parsed)
            /\ lastOp' = op("")
            /\ UNCHANGED <<today, maxPerRegion, draggingId, mounted,
                           storageMax, fnArg, fnRes, queued>>

loadFromURL2 ==
    \/ \E outcome \in {"throws", "notOk"} :
          Idle /\ loadFromURL2With(outcome, <<>>)
    \/ \E rows \in ImportFiles : Idle /\ loadFromURL2With("ok", rows)

Next2 ==
    \/ Mount2
    \/ Reload
    \/ SetToday2
    \/ SetMaxPerRegion
    \/ addTask
    \/ deleteTask
    \/ markDone
    \/ saveEdit
    \/ handleDotPointerDown2
    \/ handleDotPointerMove2
    \/ handleDotPointerUp
    \/ handleCSVFile2
    \/ loadFromURL2

Spec2 == Init /\ [][Next2]_vars

\* C5: a pointer-move that would drag the captured (unfinished) task into a
\* different region that already holds maxPerRegion unfinished tasks is
\* rejected: the task's region, bucket, remainingDays and deadline stay
C5_DragIntoFullRegionRejected ==
    [][\A dist \in DistChoices, angleDeg \in DragAngles :
          (/\ mounted
           /\ draggingId # NoId
           /\ RegionFull(regionFromAngle(angleDeg))
           /\ handleDotPointerMove2With(dist, angleDeg))
              => \A i \in 1..Len(tasks) :
                    (/\ tasks[i].id = draggingId
                     /\ ~tasks[i].finishedAt
                     /\ tasks[i].region # regionFromAngle(angleDeg))
                        => tasks'[i] = tasks[i]]_vars

\* C7: every task of the list has remainingDays >= 1 in every state the
\* second variant reaches
C7_RemainingDaysAtLeastOne ==
    \A i \in 1..Len(tasks) :
        IsNum(tasks[i].remainingDays) /\ tasks[i].remainingDays >= 1

---------------------------------------------------------------------------
(* Texts of the final variant.  A text is the sequence of its characters.  *)
(* The ten characters yyyy-MM-dd of calendar day n are written as the      *)
(* letter D and the decimal digits of n: one text per day, and the only    *)
(* texts of the model that have the shape of a date.                       *)

Comma == ","
Quote == "\""
LineFeed == "\n"

\* v.includes(c)
includes(text, c) == \E k \in 1..Len(text) : text[k] = c

RECURSIVE join(_, _)
\* Array.prototype.join
join(parts, sep) ==
    IF parts = <<>> THEN <<>>
    ELSE IF Len(parts) = 1 THEN parts[1]
    ELSE parts[1] \o sep \o join(Tail(parts), sep)

RECURSIVE doubleQuotes(_)
\* v.replace(/"/g, '""')
doubleQuotes(text) ==
    IF text = <<>> THEN <<>>
    ELSE (IF Head(text) = Quote THEN <<Quote, Quote>> ELSE <<Head(text)>>)
             \o doubleQuotes(Tail(text))

RECURSIVE NatToText(_)
NatToText(n) ==
    IF n < 10 THEN <<Digits[n + 1]>>
    ELSE NatToText(n \div 10) \o <<Digits[(n % 10) + 1]>>

\* Number.prototype.toString; JSON leaves null where NaN was stored
numberToString(n) ==
    IF n = NaN THEN <<"N", "a", "N">>
    ELSE IF n = JsNull THEN <<"n", "u", "l", "l">>
    ELSE IF n < 0 THEN <<"-">> \o NatToText(0 - n)
    ELSE NatToText(n)

\* the text yyyy-MM-dd of a calendar day
DateText(day) ==
    IF day = InvalidDate THEN <<"B">>
    ELSE <<"D">> \o numberToString(day)

\* /^\d{4}-\d{2}-\d{2}$/.test(text), and the text is a calendar day
IsDateText(text) ==
    /\ Len(text) >= 2
    /\ text[1] = "D"
    /\ LET body == IF text[2] = "-" THEN SubSeq(text, 3, Len(text))
                   ELSE Tail(text)
       IN  body # <<>> /\ \A k \in 1..Len(body) : IsDigit(body[k])

\* the text M/D/YYYY of a calendar day: the letter M and the day's digits
MdyText(day) == <<"M">> \o NatToText(day)

IsMdyText(text) ==
    /\ Len(text) >= 2
    /\ text[1] = "M"
    /\ \A k \in 2..Len(text) : IsDigit(text[k])

\* the date cell a column's text is: blank, yyyy-MM-dd of a calendar day,
\* M/D/YYYY of one, yyyy-MM-dd of none (B), or text no date parser accepts
dateCellOfText(text) ==
    LET trimmed == trim(text) IN
    IF trimmed = <<>> THEN DateCell("empty", 0)
    ELSE IF IsDateText(trimmed)
    THEN DateCell("iso", IF trimmed[2] = "-"
                         THEN 0 - DigitsValue(SubSeq(trimmed, 3, Len(trimmed)), 0)
                         ELSE DigitsValue(Tail(trimmed), 0))
    ELSE IF IsMdyText(trimmed)
    THEN DateCell("mdy", DigitsValue(Tail(trimmed), 0))
    ELSE IF trimmed = <<"B">> THEN DateCell("isoBad", 0)
    ELSE DateCell("junk", 0)

(* Project colours.                                                        *)

DEFAULT_PROJECT_COLOR == <<"#", "4", "7", "5", "5", "6", "9">>
PROJECT_COLOR_PALETTE ==
    << <<"#", "0", "e", "a", "5", "e", "9">>,
       <<"#", "f", "9", "7", "3", "1", "6">>,
       <<"#", "2", "2", "c", "5", "5", "e">>,
       <<"#", "a", "8", "5", "5", "f", "7">>,
       <<"#", "e", "c", "4", "8", "9", "9">>,
       <<"#", "f", "a", "c", "c", "1", "5">>,
       <<"#", "0", "6", "b", "6", "d", "4">>,
       <<"#", "e", "f", "4", "4", "4", "4">>,
       <<"#", "4", "a", "d", "e", "8", "0">>,
       <<"#", "c", "0", "8", "4", "f", "c">> >>

HexDigits == <<"a", "b", "c", "d", "e", "f", "A", "B", "C", "D", "E", "F">>
IsHexDigit(c) == IsDigit(c) \/ \E k \in 1..Len(HexDigits) : HexDigits[k] = c

\* the value no colour: sanitizeHexColor's undefined
NoColor == <<"undefined">>

sanitizeHexColor(input) ==
    LET value == trim(input) IN
    IF input = <<>> \/ input = NoColor THEN NoColor
    ELSE IF /\ Len(value) = 7
            /\ value[1] = "#"
            /\ \A k \in 2..7 : IsHexDigit(value[k])
    THEN toLowerCase(value)
    ELSE NoColor

\* String.prototype.charCodeAt for the characters of the model's texts
charCode(c) ==
    IF IsDigit(c) THEN 48 + DigitVal(c)
    ELSE IF \E j \in 1..26 : UpperLetters[j] = c
    THEN 64 + (CHOOSE j \in 1..26 : UpperLetters[j] = c)
    ELSE IF \E j \in 1..26 : LowerLetters[j] = c
    THEN 96 + (CHOOSE j \in 1..26 : LowerLetters[j] = c)
    ELSE IF c = " " THEN 32
    ELSE IF c = Quote THEN 34
    ELSE IF c = "#" THEN 35
    ELSE IF c = Comma THEN 44
    ELSE IF c = "-" THEN 45
    ELSE IF c = LineFeed THEN 10
    ELSE IF c = "\r" THEN 13
    ELSE 9

Word == 65536

\* hashString's unsigned 32-bit hash, kept as its high and low 16 bits:
\* hash = (hash * 31 + charCodeAt(i)) >>> 0
RECURSIVE hashFrom(_, _)
hashFrom(value, hash) ==
    IF value = <<>> THEN hash
    ELSE LET low == hash[2] * 31 + charCode(Head(value))
             high == hash[1] * 31 + (low \div Word)
         IN  hashFrom(Tail(value), <<high % Word, low % Word>>)

hashString(value) == hashFrom(value, <<0, 0>>)

\* hash % PROJECT_COLOR_PALETTE.length of the hash high * 2^16 + low
hashModPalette(hash) ==
    LET n == Len(PROJECT_COLOR_PALETTE)
    IN  ((hash[1] % n) * (Word % n) + (hash[2] % n)) % n

fallbackProjectColor_NoDefault(project) ==
    PROJECT_COLOR_PALETTE[hashModPalette(hashString(toLowerCase(trim(project)))) + 1]

fallbackProjectColor(project) ==
    LET key == toLowerCase(trim(project)) IN
    IF key = <<>> THEN DEFAULT_PROJECT_COLOR
    ELSE PROJECT_COLOR_PALETTE[hashModPalette(hashString(key)) + 1]

resolveProjectColor(project, color) ==
    LET sanitized == sanitizeHexColor(color) IN
    IF sanitized # NoColor THEN sanitized ELSE fallbackProjectColor(project)

---------------------------------------------------------------------------
(* CSV text of the final variant: tasksToCSV, splitCSVLine and parseCSV on *)
(* the characters of the file.  A task here carries every field the file   *)
(* has a column for; its id, dates and free text are texts.                *)

CsvTask(id, date, deadline, project, projectTag, projectColor, task, region,
        bucket, remainingDays, createdAt, finishedAt) ==
    [id |-> id, date |-> date, deadline |-> deadline, project |-> project,
     projectTag |-> projectTag, projectColor |-> projectColor, task |-> task,
     region |-> region, bucket |-> bucket, remainingDays |-> remainingDays,
     createdAt |-> createdAt, finishedAt |-> finishedAt]

\* the value undefined of an optional text field
Undefined == <<"undefined">>

\* the text of a bucket name
bucketText(bucket) ==
    IF bucket = "days" THEN TextDays
    ELSE IF bucket = "weeks" THEN TextWeeks
    ELSE IF bucket = "months" THEN TextMonths
    ELSE TextYears

\* the header tasksToCSV writes
csvHeader ==
    << <<"i", "d">>,
       <<"d", "a", "t", "e">>,
       <<"d", "e", "a", "d", "l", "i", "n", "e">>,
       <<"p", "r", "o", "j", "e", "c", "t">>,
       <<"p", "r", "o", "j", "e", "c", "t", "T", "a", "g">>,
       <<"p", "r", "o", "j", "e", "c", "t", "C", "o", "l", "o", "r">>,
       <<"t", "a", "s", "k">>,
       <<"r", "e", "g", "i", "o", "n">>,
       <<"b", "u", "c", "k", "e", "t">>,
       <<"r", "e", "m", "a", "i", "n", "i", "n", "g", "D", "a", "y", "s">>,
       <<"c", "r", "e", "a", "t", "e", "d", "A", "t">>,
       <<"f", "i", "n", "i", "s", "h", "e", "d", "A", "t">> >>

\* v.includes(",") || v.includes('"') || v.includes("\n") ? `"${v}"` : v
wrapField(v) ==
    IF includes(v, Comma) \/ includes(v, Quote) \/ includes(v, LineFeed)
    THEN <<Quote>> \o v \o <<Quote>>
    ELSE v

\* the fields of a task's row before wrapping
csvFields(t) ==
    << t.id, t.date, t.deadline,
       doubleQuotes(t.project),
       doubleQuotes(IF t.projectTag = Undefined THEN <<>> ELSE t.projectTag),
       doubleQuotes(resolveProjectColor(t.project, t.projectColor)),
       doubleQuotes(t.task),
       numberToString(t.region),
       bucketText(t.bucket),
       numberToString(t.remainingDays),
       t.createdAt,
       IF t.finishedAt = Undefined THEN <<>> ELSE t.finishedAt >>

csvLine(t) ==
    LET r == csvFields(t)
    IN  join([k \in 1..Len(r) |-> wrapField(r[k])], <<Comma>>)

tasksToCSV(taskList) ==
    join(<<join(csvHeader, <<Comma>>)>>
             \o [k \in 1..Len(taskList) |-> csvLine(taskList[k])],
         <<LineFeed>>)

RECURSIVE splitCSVLineFrom(_, _, _, _, _)
\* splitCSVLine's loop from character i on
splitCSVLineFrom(line, i, current, inQuotes, result) ==
    IF i > Len(line) THEN Append(result, current)
    ELSE LET ch == line[i] IN
         IF inQuotes
         THEN IF ch = Quote
              THEN IF i + 1 <= Len(line) /\ line[i + 1] = Quote
                   THEN splitCSVLineFrom(line, i + 2, Append(current, Quote),
                                         TRUE, result)
                   ELSE splitCSVLineFrom(line, i + 1, current, FALSE, result)
              ELSE splitCSVLineFrom(line, i + 1, Append(current, ch), TRUE,
                                    result)
         ELSE IF ch = Quote
              THEN splitCSVLineFrom(line, i + 1, current, TRUE, result)
              ELSE IF ch = Comma
              THEN splitCSVLineFrom(line, i + 1, <<>>, FALSE,
                                    Append(result, current))
              ELSE splitCSVLineFrom(line, i + 1, Append(current, ch), FALSE,
                                    result)

splitCSVLine(line, expectedCols) ==
    LET result == splitCSVLineFrom(line, 1, <<>>, FALSE, <<>>)
    IN  result \o [k \in 1..(expectedCols - Len(result)) |-> <<>>]

\* String.prototype.split on one separator character: the pieces between
\* consecutive occurrences of the separator
split(text, sep) ==
    LET at == {i \in 1..Len(text) : text[i] = sep}
        \* position of the k-th separator; 0 before the first piece and
        \* Len(text) + 1 after the last
        pos(k) == IF k = 0 THEN 0
                  ELSE IF k > Cardinality(at) THEN Len(text) + 1
                  ELSE CHOOSE i \in at : Cardinality({j \in at : j < i}) = k - 1
    IN  [k \in 1..(Cardinality(at) + 1) |->
            SubSeq(text, pos(k - 1) + 1, pos(k) - 1)]

\* text.split(/\r?\n/)
splitLines(text) ==
    LET parts == split(text, LineFeed)
    IN  [k \in 1..Len(parts) |->
            IF /\ k < Len(parts)
               /\ parts[k] # <<>>
               /\ parts[k][Len(parts[k])] = "\r"
            THEN SubSeq(parts[k], 1, Len(parts[k]) - 1)
            ELSE parts[k]]

\* .filter((l) => l.trim().length > 0)
nonBlankLines(lines) == SelectSeq(lines, LAMBDA l : trim(l) # <<>>)

\* header.indexOf(name), counted from 1; 0 where JavaScript gives -1
indexOf(header, name) ==
    IF \E k \in 1..Len(header) : header[k] = name
    THEN CHOOSE k \in 1..Len(header) :
             /\ header[k] = name
             /\ \A j \in 1..(k - 1) : header[j] # name
    ELSE 0

\* idx >= 0 ? cols[idx] : ""
column(cols, header, name) ==
    IF indexOf(header, name) = 0 THEN <<>> ELSE cols[indexOf(header, name)]

\* new Date().toISOString() at the time of the parse
nowISOString == <<"T">>

\* the body of parseCSV's loop for line i of the file's non-blank lines
parseCSVLine(i, raw, header) ==
    LET cols == splitCSVLine(raw, Len(header))
        \* cols[idxId] with idxId = -1 is undefined
        rawId == column(cols, header, <<"i", "d">>)
        id == IF rawId = <<>> THEN <<"c", "s", "v", "-">> \o numberToString(i) ELSE rawId
        rawDate == column(cols, header, <<"d", "a", "t", "e">>)
        rawFinished == column(cols, header, <<"f", "i", "n", "i", "s", "h", "e", "d", "A", "t">>)
        rawCreated == column(cols, header, <<"c", "r", "e", "a", "t", "e", "d", "A", "t">>)
        date == Coalesce(normalizeDateInput(dateCellOfText(rawDate)), todayISO)
        placed == parseCSVRow(i,
                      Row(NoId, dateCellOfText(rawDate),
                          dateCellOfText(column(cols, header, <<"d", "e", "a", "d", "l", "i", "n", "e">>)),
                          column(cols, header, <<"r", "e", "g", "i", "o", "n">>),
                          column(cols, header, <<"b", "u", "c", "k", "e", "t">>),
                          column(cols, header, <<"r", "e", "m", "a", "i", "n", "i", "n", "g", "D", "a", "y", "s">>),
                          JsNull))
    IN  CsvTask(id, DateText(date), DateText(placed.deadline),
                column(cols, header, <<"p", "r", "o", "j", "e", "c", "t">>),
                column(cols, header, <<"p", "r", "o", "j", "e", "c", "t", "T", "a", "g">>),
                column(cols, header, <<"p", "r", "o", "j", "e", "c", "t", "C", "o", "l", "o", "r">>),
                column(cols, header, <<"t", "a", "s", "k">>),
                placed.region, placed.bucket, placed.remainingDays,
                IF rawCreated = <<>> THEN nowISOString ELSE rawCreated,
                IF rawFinished = <<>> THEN Undefined ELSE rawFinished)

RECURSIVE parseCSVLines(_, _, _)
\* parseCSV's loop from line i on (line 0 is the header): a line that is
\* blank, or splits into fewer fields than the header has, is passed over
parseCSVLines(lines, i, header) ==
    IF i >= Len(lines) THEN <<>>
    ELSE LET raw == lines[i + 1] IN
         (IF \/ trim(raw) = <<>>
             \/ Len(splitCSVLine(raw, Len(header))) < Len(header)
          THEN <<>>
          ELSE <<parseCSVLine(i, raw, header)>>)
             \o parseCSVLines(lines, i + 1, header)

\* parseCSV on the text of a file
parseCSVText(text) ==
    LET lines == nonBlankLines(splitLines(text))
    IN  IF Len(lines) < 2 THEN <<>>
        ELSE parseCSVLines(lines, 1, split(lines[1], Comma))

---------------------------------------------------------------------------
(* The bucketing functions on their own: a day count is drawn, and each    *)
(* variant's bucketFromDays is applied to it.                              *)

BucketDays == (0 - DayMargin)..(3650 + DayMargin)

InitBucket ==
    /\ AppInit
    /\ fnArg \in BucketDays
    /\ fnRes = NoResult

\* final variant's bucketFromDays(fnArg)
ApplyBucketFromDays ==
    /\ fnRes' = [fn |-> "bucketFromDays", out |-> bucketFromDays(fnArg)]
    /\ UNCHANGED <<fnArg, appVars>>

\* first variant's bucketFromDays(fnArg)
ApplyBucketFromDays1 ==
    /\ fnRes' = [fn |-> "bucketFromDays1", out |-> bucketFromDays1(fnArg)]
    /\ UNCHANGED <<fnArg, appVars>>

NextBucket ==
    \/ ApplyBucketFromDays
    \/ ApplyBucketFromDays1

SpecBucket == InitBucket /\ [][NextBucket]_vars

\* C1: for every integer d in 1..3650, bucketFromDays(d) returns a region,
\* d lies in that region's inclusive day range (4: 1-7, 3: 8-28, 2: 29-365,
\* 1: 366-3650), no other region's range holds d, and the bucket returned is
\* the one paired with the region (days, weeks, months, years; the first
\* variant names it by the unit letter of its label)
C1_RegionTotality ==
    LET range == [r \in Regions |->
                    CASE r = 4 -> 1..7
                      [] r = 3 -> 8..28
                      [] r = 2 -> 29..365
                      [] r = 1 -> 366..3650]
        paired == [r \in Regions |->
                     CASE r = 4 -> "days"
                       [] r = 3 -> "weeks"
                       [] r = 2 -> "months"
                       [] r = 1 -> "years"]
        letter == [r \in Regions |->
                     CASE r = 4 -> "d"
                       [] r = 3 -> "w"
                       [] r = 2 -> "m"
                       [] r = 1 -> "y"]
        holding == {r \in Regions : fnArg \in range[r]}
    IN  (fnArg \in 1..3650) =>
            /\ fnRes.fn = "bucketFromDays" =>
                  /\ fnRes.out.region \in Regions
                  /\ holding = {fnRes.out.region}
                  /\ fnRes.out.bucket = paired[fnRes.out.region]
            /\ fnRes.fn = "bucketFromDays1" =>
                  /\ fnRes.out.stars \in Regions
                  /\ holding = {fnRes.out.stars}
                  /\ fnRes.out.label[2] = letter[fnRes.out.stars]

\* the last day of the weeks range has been classified by the final variant
C1_Witness ==
    /\ fnArg = 28
    /\ fnRes.fn = "bucketFromDays"
    /\ fnRes.out = [region |-> 3, bucket |-> "weeks"]

---------------------------------------------------------------------------
(* parseCSV on its own: a data row is drawn and decoded as row 1 of a file *)
(* whose header names every column.                                        *)

\* deadline cells: calendar days around both ends of 1..3650, a date in
\* M/D/YYYY form, and cells normalizeDateInput does not accept
CsvDeadlineCells ==
    {DateCell("iso", d) :
        d \in {0 - DayMargin, 0, 1, 10, 3650, 3650 + DayMargin}}
        \cup {DateCell("mdy", 3), DateCell("isoBad", 0),
              DateCell("empty", 0), DateCell("junk", 0)}
CsvDateCells == {DateCell("empty", 0), DateCell("iso", 2)}
CsvRegionTexts == {<<>>, <<"1">>, <<"3">>, <<"9">>, <<"x">>}
CsvBucketTexts == {<<>>, TextDays, TextYears, <<"x">>}
CsvRemainingTexts == {<<>>, <<"4", "0", "0">>, <<"0">>, <<"x">>}

CsvRows ==
    {Row(id, date, deadline, region, bucket, remainingDays, FALSE) :
        id \in {NoId, FileId(1)}, date \in CsvDateCells,
        deadline \in CsvDeadlineCells, region \in CsvRegionTexts,
        bucket \in CsvBucketTexts, remainingDays \in CsvRemainingTexts}

InitCSV ==
    /\ AppInit
    /\ fnArg \in CsvRows
    /\ fnRes = NoResult

\* final variant's parseCSV on the one-row file
ApplyParseCSV ==
    /\ fnRes' = [fn |-> "parseCSV", out |-> parseCSV(<<fnArg>>)]
    /\ UNCHANGED <<fnArg, appVars>>

NextCSV == ApplyParseCSV

SpecCSV == InitCSV /\ [][NextCSV]_vars

\* the day offset d = diffInDays(today, deadline) parseCSV computes for a row
\* whose deadline cell parses; NaN otherwise
RowOffset(cols) ==
    IF normalizeDateInput(cols.deadline) \in {JsNull, InvalidDate} THEN NaN
    ELSE diffInDays(todayISO, normalizeDateInput(cols.deadline))

\* C9: parseCSV decodes every row whose deadline is today or in the past
\* (d <= 0) to remainingDays 1, region 4, bucket days, whatever the row's
\* own region, bucket and remainingDays columns contain
C9_OverdueRowClampedToOneDay ==
    (fnRes.fn = "parseCSV" /\ RowOffset(fnArg) # NaN /\ RowOffset(fnArg) <= 0)
        => /\ Len(fnRes.out) = 1
           /\ fnRes.out[1].remainingDays = 1
           /\ fnRes.out[1].region = 4
           /\ fnRes.out[1].bucket = "days"

\* C10: for every row whose deadline parses, the decoded region, bucket and
\* remainingDays are those recomputed from (today, deadline): every row that
\* differs from it only in its region, bucket and remainingDays columns
\* decodes to the same three values
C10_PlacementColumnsIgnored ==
    (fnRes.fn = "parseCSV" /\ RowOffset(fnArg) # NaN)
        => \A region \in CsvRegionTexts, bucket \in CsvBucketTexts,
              remainingDays \in CsvRemainingTexts :
              LET other == parseCSVRow(1,
                               [fnArg EXCEPT !.region = region,
                                             !.bucket = bucket,
                                             !.remainingDays = remainingDays])
              IN  /\ other.region = fnRes.out[1].region
                  /\ other.bucket = fnRes.out[1].bucket
                  /\ other.remainingDays = fnRes.out[1].remainingDays

\* C11: a row whose deadline is 10 days after today and whose region column
\* is 1 decodes to the placement of 10 days, region 3 with bucket weeks, not
\* to region 1
C11_StaleRegionOverridden ==
    (/\ fnRes.fn = "parseCSV"
     /\ fnArg.deadline = DateCell("iso", 10)
     /\ fnArg.region = <<"1">>)
        => /\ fnRes.out[1].region = 3
           /\ fnRes.out[1].bucket = "weeks"

\* C11 as stated: that row decodes to region 4 with bucket days
C11_StaleRegionDecodesToDays ==
    (/\ fnRes.fn = "parseCSV"
     /\ fnArg.deadline = DateCell("iso", 10)
     /\ fnArg.region = <<"1">>)
        => /\ fnRes.out[1].region = 4
           /\ fnRes.out[1].bucket = "days"

\* the row with region column 1 and bucket column years has been decoded
C11_Witness ==
    /\ fnRes.fn = "parseCSV"
    /\ fnArg.deadline = DateCell("iso", 10)
    /\ fnArg.region = <<"1">>
    /\ fnArg.bucket = TextYears
    /\ fnRes.out[1].remainingDays = 10
    /\ fnRes.out[1].region # 1

---------------------------------------------------------------------------
(* tasksToCSV and its round trip through parseCSV on their own.  fnArg is  *)
(* the task list that is exported.                                         *)

\* the longest exported list
MaxExport == 2

ExportIds == {<<"t", "1">>, <<"t", "2">>, <<"a", Quote, "b">>}
ExportProjects == {<<>>, <<"p">>, <<"p", Comma, "q">>}
ExportTexts ==
    {<<"x">>, <<"x", Comma, "y">>, <<"x", Quote, "y">>,
     <<"x", LineFeed, "y">>}
ExportDeadlines == {3, 10}

\* a task as addTask or an import leaves it, placed by its deadline
ExportTask(id, project, task, deadline) ==
    CsvTask(id, DateText(todayISO), DateText(deadline), project, <<>>,
            Undefined, task, bucketFromDays(deadline).region,
            bucketFromDays(deadline).bucket, deadline, nowISOString,
            Undefined)

ExportTasks ==
    {ExportTask(id, project, task, deadline) :
        id \in ExportIds, project \in ExportProjects, task \in ExportTexts,
        deadline \in ExportDeadlines}

ExportLists == UNION {[1..n -> ExportTasks] : n \in 0..MaxExport}

InitExport ==
    /\ AppInit
    /\ fnArg \in ExportLists
    /\ fnRes = NoResult

\* parseCSV(tasksToCSV(tasks))
ApplyRoundTrip ==
    /\ fnRes' = [fn |-> "roundTrip", out |-> parseCSVText(tasksToCSV(fnArg))]
    /\ UNCHANGED <<fnArg, appVars>>

\* splitCSVLine on each row tasksToCSV emits
ApplySplitCSVLine ==
    /\ fnRes' = [fn |-> "splitCSVLine",
                 out |-> [k \in 1..Len(fnArg) |->
                             splitCSVLine(csvLine(fnArg[k]), Len(csvHeader))]]
    /\ UNCHANGED <<fnArg, appVars>>

NextExport == ApplyRoundTrip \/ ApplySplitCSVLine

SpecExport == InitExport /\ [][NextExport]_vars

\* the values a task has in the twelve columns
fieldValues(t) ==
    << t.id, t.date, t.deadline, t.project,
       IF t.projectTag = Undefined THEN <<>> ELSE t.projectTag,
       resolveProjectColor(t.project, t.projectColor), t.task,
       numberToString(t.region), bucketText(t.bucket),
       numberToString(t.remainingDays), t.createdAt,
       IF t.finishedAt = Undefined THEN <<>> ELSE t.finishedAt >>

\* C12: decoding the encoding of a list of N tasks yields N tasks, in the
\* same order, each with the id, project, task and deadline of the original,
\* whatever commas, double quotes and newlines project and task contain
\* (stated for ids that hold none of the three)
C12_RoundTripPreservesTasks ==
    (/\ fnRes.fn = "roundTrip"
     /\ \A k \in 1..Len(fnArg) : wrapField(fnArg[k].id) = fnArg[k].id)
        => /\ Len(fnRes.out) = Len(fnArg)
           /\ \A k \in 1..Len(fnArg) :
                  /\ fnRes.out[k].id = fnArg[k].id
                  /\ fnRes.out[k].project = fnArg[k].project
                  /\ fnRes.out[k].task = fnArg[k].task
                  /\ fnRes.out[k].deadline = fnArg[k].deadline

\* C13: splitCSVLine on the row tasksToCSV emits for a task returns the
\* values of the task's twelve columns, whichever of them contain a comma,
\* a double quote or a newline
C13_EmittedRowSplitsToFields ==
    fnRes.fn = "splitCSVLine"
        => \A k \in 1..Len(fnArg) : fnRes.out[k] = fieldValues(fnArg[k])

---------------------------------------------------------------------------
(* parseCSV on the text of a file, on its own.  fnArg is a file: the names *)
(* in its header line, the field each of them stands for, and its rows.   *)
(* A full row has one field per header name, a short row only the first    *)
(* two of them, a blank row is a line of spaces.                           *)

\* the most rows of a file
MaxLines == 2

FileHeader(names, cols) == [names |-> names, cols |-> cols]

CanonicalCols == <<"id", "date", "deadline", "project", "task">>
CanonicalHeader ==
    FileHeader(<< <<"i", "d">>, <<"d", "a", "t", "e">>, <<"d", "e", "a", "d", "l", "i", "n", "e">>, <<"p", "r", "o", "j", "e", "c", "t">>, <<"t", "a", "s", "k">> >>,
               CanonicalCols)

\* headers that differ from the canonical one in letter case, in
\* surrounding spaces, or in the alias due for deadline
HeaderVariants ==
    { FileHeader(<< <<"I", "D">>, <<"D", "a", "t", "e">>, <<"D", "E", "A", "D", "L", "I", "N", "E">>, <<"P", "r", "o", "j", "e", "c", "t">>, <<"T", "a", "s", "k">> >>,
                 CanonicalCols),
      FileHeader(<< <<" ", "i", "d">>, <<" ", "d", "a", "t", "e", " ">>, <<" ", "d", "e", "a", "d", "l", "i", "n", "e">>, <<"p", "r", "o", "j", "e", "c", "t", " ">>, <<"t", "a", "s", "k", " ">> >>,
                 CanonicalCols),
      FileHeader(<< <<"i", "d">>, <<"d", "a", "t", "e">>, <<"d", "u", "e">>, <<"p", "r", "o", "j", "e", "c", "t">>, <<"t", "a", "s", "k">> >>,
                 CanonicalCols) }

\* headers that lack one of id, date and deadline
HeadersLacking ==
    { FileHeader(<< <<"d", "a", "t", "e">>, <<"d", "e", "a", "d", "l", "i", "n", "e">>, <<"p", "r", "o", "j", "e", "c", "t">>, <<"t", "a", "s", "k">> >>,
                 <<"date", "deadline", "project", "task">>),
      FileHeader(<< <<"i", "d">>, <<"d", "e", "a", "d", "l", "i", "n", "e">>, <<"p", "r", "o", "j", "e", "c", "t">>, <<"t", "a", "s", "k">> >>,
                 <<"id", "deadline", "project", "task">>),
      FileHeader(<< <<"i", "d">>, <<"d", "a", "t", "e">>, <<"p", "r", "o", "j", "e", "c", "t">>, <<"t", "a", "s", "k">> >>,
                 <<"id", "date", "project", "task">>) }

FileHeaders == {CanonicalHeader} \cup HeaderVariants \cup HeadersLacking

FileRow(kind, id, date, deadline) ==
    [kind |-> kind, id |-> id, date |-> date, deadline |-> deadline,
     project |-> <<"p">>, task |-> <<"x">>]

FileDeadlines == {<<>>, DateText(10), MdyText(3), <<"B">>, <<"s", "o", "o", "n">>}

FileRows ==
    {FileRow("full", id, date, deadline) :
        id \in {<<>>, <<"t", "1">>}, date \in {<<>>, DateText(5)},
        deadline \in FileDeadlines}
    \cup {FileRow("short", <<"t", "1">>, date, <<>>) :
              date \in {<<>>, DateText(5)}}
    \cup {FileRow("blank", <<>>, <<>>, <<>>)}

Files ==
    {[header |-> h, rows |-> r] :
        h \in FileHeaders, r \in UNION {[1..n -> FileRows] : n \in 0..MaxLines}}

\* the line of a row under a header
fileLine(header, row) ==
    IF row.kind = "blank" THEN <<" ", " ">>
    ELSE LET n == IF row.kind = "short" THEN 2 ELSE Len(header.cols)
         IN  join([k \in 1..n |-> row[header.cols[k]]], <<Comma>>)

\* the text of a file
fileText(file) ==
    join(<<join(file.header.names, <<Comma>>)>>
             \o [k \in 1..Len(file.rows) |->
                     fileLine(file.header, file.rows[k])],
         <<LineFeed>>)

InitImport ==
    /\ AppInit
    /\ fnArg \in Files
    /\ fnRes = NoResult

\* final variant's parseCSV on the text of the file
ApplyParseCSVText ==
    /\ fnRes' = [fn |-> "parseCSVText", out |-> parseCSVText(fileText(fnArg))]
    /\ UNCHANGED <<fnArg, appVars>>

NextImport == ApplyParseCSVText

SpecImport == InitImport /\ [][NextImport]_vars

\* C14: a file whose header differs from id,date,deadline,project,task only
\* in letter case, in surrounding whitespace or in the alias due for deadline
\* decodes to the tasks the same rows decode to under the canonical header
C14_HeaderLookupTolerant ==
    (fnRes.fn = "parseCSVText" /\ fnArg.header \in HeaderVariants)
        => fnRes.out =
               parseCSVText(fileText([fnArg EXCEPT !.header = CanonicalHeader]))

\* the header names its columns exactly as parseCSV looks them up
ExactHeader(header) == header \in {CanonicalHeader} \cup HeadersLacking

\* the header has a column for the field
HasColumn(header, col) == \E k \in 1..Len(header.cols) : header.cols[k] = col

\* the file has full rows only
FullRowsOnly(file) == \A k \in 1..Len(file.rows) : file.rows[k].kind = "full"

\* the text is one a date parser accepts
Parseable(text) == dateCellOfText(text).kind \in {"iso", "mdy"}

\* C15: parseCSV decodes every row of a file that lacks a column, and a
\* missing or empty date becomes today, a missing or unparseable deadline
\* becomes the row's date, a missing or empty id becomes csv-<row index>
C15_MissingColumnsDefaulted ==
    (fnRes.fn = "parseCSVText" /\ ExactHeader(fnArg.header)
        /\ FullRowsOnly(fnArg))
        => /\ Len(fnRes.out) = Len(fnArg.rows)
           /\ \A k \in 1..Len(fnArg.rows) :
                  LET row == fnArg.rows[k]
                      out == fnRes.out[k]
                  IN  /\ (~HasColumn(fnArg.header, "date") \/ row.date = <<>>)
                          => out.date = DateText(todayISO)
                      /\ (\/ ~HasColumn(fnArg.header, "deadline")
                          \/ ~Parseable(row.deadline))
                          => out.deadline = out.date
                      /\ (~HasColumn(fnArg.header, "id") \/ row.id = <<>>)
                          => out.id = <<"c", "s", "v", "-">> \o numberToString(k)

\* C16: parseCSV produces no task for a row with fewer fields than the
\* header, nor for a blank row: the tasks are those of the full rows
C16_ShortAndBlankRowsSkipped ==
    (fnRes.fn = "parseCSVText" /\ ExactHeader(fnArg.header))
        => fnRes.out =
               parseCSVText(fileText(
                   [fnArg EXCEPT !.rows =
                       SelectSeq(fnArg.rows, LAMBDA r : r.kind = "full")]))

---------------------------------------------------------------------------
(* Imports and the pointer in the final variant (specification Spec).      *)

\* C17: an import whose fetch throws, whose status is not ok, or whose file
\* decodes to no task leaves the task list as it was; every other import
\* replaces the list by the decoded one as a whole.  Every handler records
\* its name and its alert in lastOp, so the steps of an import are those
\* after which lastOp names one, and the alert tells which way it went
C17_ImportReplacesOrLeaves ==
    [][lastOp'.name \in {"handleCSVFile", "loadFromURL"} =>
        IF lastOp'.alert # ""
        THEN tasks' = tasks
        ELSE \E rows \in ImportFiles :
                 /\ Len(parseCSV(rows)) > 0
                 /\ tasks' = parseCSV(rows)]_vars

\* a failed fetch has been reported and the list still holds its tasks
C17_Witness ==
    /\ lastOp \in {Op("loadFromURL", "Failed to fetch CSV."),
                   Op("loadFromURL", "Error fetching CSV from URL.")}
    /\ tasks # <<>>
    /\ storage = Persisted(tasks)

\* the positions of the list a step changes
changedTasks == {k \in 1..Len(tasks) : tasks'[k] # tasks[k]}

\* C19: capture starts on pointer-down over a dot and ends on pointer-up or
\* pointer-leave, and a pointer-move changes the task list only while a task
\* is captured, and then changes one task only: the captured one
C19_PointerMoveChangesCapturedTaskOnly ==
    [][/\ draggingId' # draggingId
           => \/ lastOp'.name = "pointerDown" /\ draggingId' \in plottedIds
              \/ lastOp'.name = "pointerUp" /\ draggingId' = NoId
       /\ lastOp'.name = "pointerMove"
           => /\ Len(tasks') = Len(tasks)
              /\ tasks' # tasks => draggingId # NoId
              /\ Cardinality(changedTasks) <= 1
              /\ \A k \in changedTasks : tasks[k].id = draggingId]_vars

---------------------------------------------------------------------------
(* regionFromAngle of the second variant on its own: a pointer angle in    *)
(* whole degrees is drawn, as Math.atan2 gives it (-180..180) or as the    *)
(* wedges name it (0..359).                                                *)

PointerAngles == (0 - 180)..359

InitAngle ==
    /\ AppInit
    /\ fnArg \in PointerAngles
    /\ fnRes = NoResult

ApplyRegionFromAngle ==
    /\ fnRes' = [fn |-> "regionFromAngle", out |-> regionFromAngle(fnArg)]
    /\ UNCHANGED <<fnArg, appVars>>

NextAngle == ApplyRegionFromAngle

SpecAngle == InitAngle /\ [][NextAngle]_vars

\* the region whose wedge [start, end) holds the angle
halfOpenWedge(angle) ==
    CHOOSE region \in Regions :
        /\ regionAngles(region).start <= angle
        /\ angle < regionAngles(region).end

\* C20: regionFromAngle maps every angle in [0, 360) to the region whose
\* half-open wedge holds it (4: [90,180), 3: [0,90), 2: [180,270),
\* 1: [270,360)), the boundary angles 0, 90, 180 and 270 included
C20_AngleInHalfOpenWedge ==
    (fnRes.fn = "regionFromAngle" /\ fnArg \in 0..359)
        => fnRes.out = halfOpenWedge(fnArg)

---------------------------------------------------------------------------
(* The drag of the second variant against its own forward mapping: a dot   *)
(* of region r, step s and lane l of n lanes is drawn where dotPositions    *)
(* puts it, and a pointer-move to that point is applied.  The distance of  *)
(* the point from the centre is the fraction num / den of a pixel count.   *)

\* lane counts for which the lanes' angles are whole degrees
LaneCounts == {1, 3, 5}

Dots ==
    {[region |-> r, step |-> st, lanes |-> n, laneIndex |-> l] :
        r \in Regions, st \in 1..12, n \in LaneCounts, l \in 0..4}

DrawnDots ==
    {d \in Dots : /\ d.step <= stepsForBucket(bucketByRegion(d.region))
                  /\ d.laneIndex < d.lanes}

\* angleRange.start + (angleRange.end - angleRange.start) * (laneIndex + 0.5)
\* / lanes
dotAngle(d) ==
    LET angleRange == regionAngles(d.region)
    IN  angleRange.start
            + ((angleRange.end - angleRange.start) * (2 * d.laneIndex + 1))
                  \div (2 * d.lanes)

\* r = maxR * (minRadiusFactor + radiusFactorRange * progress) with
\* progress = 1 - (step - 1) / (nSteps - 1), as the fraction num / den
dotDist(d) ==
    LET nSteps == stepsForBucket(bucketByRegion(d.region))
    IN  [num |-> maxR * (minRadiusFactor * (nSteps - 1)
                            + radiusFactorRange * (nSteps - d.step)),
         den |-> 100 * (nSteps - 1)]

\* (Math.atan2(cy - py, dx) * 180) / Math.PI of a point at the angle
atan2Deg(angle) == IF angle > 180 THEN angle - 360 ELSE angle

\* stepFromDist at the distance num / den
stepFromDistAt(dist, nSteps) ==
    LET scaled == MathMin(MathMax(100 * dist.num,
                                  minRadiusFactor * maxR * dist.den),
                          maxRadiusFactor * maxR * dist.den)
    IN  IF nSteps <= 1 THEN 1
        ELSE clamp(RoundDiv((maxRadiusFactor * maxR * dist.den - scaled)
                                * (nSteps - 1),
                            radiusFactorRange * maxR * dist.den) + 1,
                   1, nSteps)

\* the task a pointer-move to the point at distance num / den and angle
\* angleDeg leaves in place of t
draggedTask2At(t, dist, angleDeg) ==
    LET newRegion == regionFromAngle(angleDeg)
        newBucket == bucketByRegion(newRegion)
        nSteps == stepsForBucket(newBucket)
        step == stepFromDistAt(dist, nSteps)
        newRemaining == stepToRemainingDays(newBucket, step)
        newDeadline == addDays(today, newRemaining)
    IN  [t EXCEPT !.remainingDays = newRemaining, !.deadline = newDeadline,
                  !.bucket = newBucket, !.region = newRegion]

\* the task that is dragged: three days left, in region 4
DraggedTask == Task(TaskId(1), 3, 4, "days", 3, FALSE)

InitDrag ==
    /\ AppInit
    /\ fnArg \in DrawnDots
    /\ fnRes = NoResult

\* handleDotPointerMove at the point of the dot
ApplyDragToDot ==
    /\ fnRes' = [fn |-> "drag",
                 out |-> draggedTask2At(DraggedTask, dotDist(fnArg),
                                        atan2Deg(dotAngle(fnArg)))]
    /\ UNCHANGED <<fnArg, appVars>>

NextDrag == ApplyDragToDot

SpecDrag == InitDrag /\ [][NextDrag]_vars

\* C18: a drag to the point of step s in region r sets the task's region to
\* r and its remainingDays to a count that bucketFromDays puts in region r
\* and that remainingToStep maps back to step s
C18_DragInvertsForwardMapping ==
    fnRes.fn = "drag"
        => /\ fnRes.out.region = fnArg.region
           /\ bucketFromDays(fnRes.out.remainingDays) # NoPlacement
           /\ bucketFromDays(fnRes.out.remainingDays).region = fnArg.region
           /\ remainingToStep(fnRes.out) = fnArg.step

---------------------------------------------------------------------------
(* The radius of a dot in the final variant, on its own: a bucket and a    *)
(* count of remaining days are drawn and the dot of a task with them is    *)
(* placed.  A radius is the fraction num / den of a pixel count.           *)

\* day counts: every one up to 400, and beyond it the ones about the
\* half-years, where Math.round(remainingDays / 365) steps
RadiusDays ==
    {d \in (0 - DayMargin)..(3650 + DayMargin) :
        d <= 400 \/ d % 73 \in {0, 36, 37}}

urgencyProgress_Inward(t) ==
    LET nSteps == stepsForBucket(t.bucket)
        step == remainingToStep(t)
    IN  IF nSteps <= 1 THEN [num |-> 1, den |-> 1]
        ELSE [num |-> MathMin(nSteps - 1, MathMax(0, step - 1)),
              den |-> nSteps - 1]

\* Math.min(1, Math.max(0, 1 - (step - 1) / (nSteps - 1))) as a fraction
urgencyProgress(t) ==
    LET nSteps == stepsForBucket(t.bucket)
        step == remainingToStep(t)
    IN  IF nSteps <= 1 THEN [num |-> 1, den |-> 1]
        ELSE [num |-> MathMin(nSteps - 1, MathMax(0, nSteps - step)),
              den |-> nSteps - 1]

\* r = maxR * (minRadiusFactor + radiusFactorRange * progress)
dotRadius(t) ==
    LET progress == urgencyProgress(t)
    IN  [num |-> maxR * (minRadiusFactor * progress.den
                            + radiusFactorRange * progress.num),
         den |-> 100 * progress.den]

\* a task of the bucket with the count of remaining days
RadiusTask(bucket, remainingDays) ==
    Task(TaskId(1), remainingDays,
         CHOOSE region \in Regions : bucketByRegion(region) = bucket,
         bucket, remainingDays, FALSE)

InitRadius ==
    /\ AppInit
    /\ fnArg \in [bucket : Buckets, remainingDays : RadiusDays]
    /\ fnRes = NoResult

ApplyDotRadius ==
    /\ fnRes' = [fn |-> "dotRadius",
                 out |-> dotRadius(RadiusTask(fnArg.bucket,
                                              fnArg.remainingDays))]
    /\ UNCHANGED <<fnArg, appVars>>

NextRadius == ApplyDotRadius

SpecRadius == InitRadius /\ [][NextRadius]_vars

\* x >= y for fractions with positive denominators
FractionGE(x, y) == x.num * y.den >= y.num * x.den

\* C21: of two tasks of one bucket the one with fewer remaining days is
\* drawn at a radius at least as large; a task on the bucket's first step is
\* at 0.97 of maxR, one on its last step at 0.25 of maxR
C21_UrgentTasksDrawnOutward ==
    fnRes.fn = "dotRadius"
        => LET t == RadiusTask(fnArg.bucket, fnArg.remainingDays) IN
           /\ \A b \in RadiusDays :
                  fnArg.remainingDays < b
                      => FractionGE(fnRes.out,
                                    dotRadius(RadiusTask(fnArg.bucket, b)))
           /\ remainingToStep(t) = 1
                  => 100 * fnRes.out.num = maxRadiusFactor * maxR * fnRes.out.den
           /\ remainingToStep(t) = stepsForBucket(fnArg.bucket)
                  => 100 * fnRes.out.num = minRadiusFactor * maxR * fnRes.out.den

\* a task of ten days in weeks sits on the outermost step, and one of eleven
\* days strictly inside it
C21_Witness ==
    /\ fnRes.fn = "dotRadius"
    /\ fnArg = [bucket |-> "weeks", remainingDays |-> 10]
    /\ 100 * fnRes.out.num = maxRadiusFactor * maxR * fnRes.out.den
    /\ ~FractionGE(dotRadius(RadiusTask("weeks", 11)), fnRes.out)

---------------------------------------------------------------------------
(* The lanes of dotPositions in the final variant, on their own: a list of *)
(* plotted tasks and a capacity, the same for every region, are drawn and  *)
(* each task's lane is computed.  The capacity field takes any number of   *)
(* at least 1 (Math.max(1, Number(value) || 1)), whole or not; capacities  *)
(* and lane indices are counted in halves here, so that 5 stands for 2.5.  *)

\* the most plotted tasks
MaxPlotted == 3

\* capacities 1, 1.5, 2 and 2.5, in halves
CapacityHalves == {2, 3, 4, 5}

LaneProjects == {<<>>, <<"a">>, <<"b">>}
LaneColors == {Undefined, <<"#", "F", "F", "0", "0", "0", "0">>}

PlottedTasks ==
    [region : {3, 4}, project : LaneProjects, projectColor : LaneColors]

PlottedLists == UNION {[1..n -> PlottedTasks] : n \in 0..MaxPlotted}

\* resolveProjectColor(t.project, t.projectColor)
colorKey(t) == resolveProjectColor(t.project, t.projectColor)

RECURSIVE distinctInOrder(_)
\* Array.from(new Set(values)): first occurrences, in order
distinctInOrder(values) ==
    IF values = <<>> THEN <<>>
    ELSE LET front == distinctInOrder(SubSeq(values, 1, Len(values) - 1))
             last == values[Len(values)]
         IN  IF indexOf(front, last) # 0 THEN front ELSE Append(front, last)

\* the colours of the region's plotted tasks
uniqueColors(plotted, region) ==
    LET inRegion == SelectSeq(plotted, LAMBDA t : t.region = region)
    IN  distinctInOrder([k \in 1..Len(inRegion) |-> colorKey(inRegion[k])])

\* lanes = Math.max(1, Math.min(10, maxPerRegion[region])), in halves
lanesHalves(capacity) == MathMax(2, MathMin(20, capacity))

\* colorLaneMap[t.region].get(colorKey) = idx % lanes, in halves; the first
\* pass has entered the colour of every plotted task, so the fallback on
\* blankLaneNext is never taken
laneIndexHalves(plotted, t, capacity) ==
    LET idx == indexOf(uniqueColors(plotted, t.region), colorKey(t)) - 1
    IN  (2 * idx) % lanesHalves(capacity)

InitLanes ==
    /\ AppInit
    /\ fnArg \in [capacity : CapacityHalves, plotted : PlottedLists]
    /\ fnRes = NoResult

\* the laneIndex of every entry of dotPositions
ApplyDotLanes ==
    /\ fnRes' = [fn |-> "dotLanes",
                 out |-> [k \in 1..Len(fnArg.plotted) |->
                             laneIndexHalves(fnArg.plotted, fnArg.plotted[k],
                                             fnArg.capacity)]]
    /\ UNCHANGED <<fnArg, appVars>>

NextLanes == ApplyDotLanes

SpecLanes == InitLanes /\ [][NextLanes]_vars

\* C22: two plotted tasks of one region with the same effective colour have
\* the same lane index, and every lane index lies in 0..lanes-1
C22_SameColourSameLane ==
    fnRes.fn = "dotLanes"
        => /\ \A i, j \in 1..Len(fnArg.plotted) :
                  (/\ fnArg.plotted[i].region = fnArg.plotted[j].region
                   /\ colorKey(fnArg.plotted[i]) = colorKey(fnArg.plotted[j]))
                      => fnRes.out[i] = fnRes.out[j]
           /\ \A i \in 1..Len(fnArg.plotted) :
                  /\ fnRes.out[i] >= 0
                  /\ fnRes.out[i] <= lanesHalves(fnArg.capacity) - 2

---------------------------------------------------------------------------
(* Steps within a region (specification SpecBucket).                       *)

\* first variant: the number of units of a stars value
unitsPerStars(stars) ==
    CASE stars = 4 -> 7
      [] stars = 3 -> 4
      [] stars = 2 -> 12
      [] OTHER -> 10

\* the day counts bucketFromDays classifies
ClassifiedDays == 1..3650

\* final variant: the step of a task placed by bucketFromDays(d)
stepOfDays(d) ==
    remainingToStep(Task(TaskId(1), d, bucketFromDays(d).region,
                         bucketFromDays(d).bucket, d, FALSE))

\* the two step functions tabulated over the classified day counts
stepTable == [d \in ClassifiedDays |-> stepOfDays(d)]
unitTable == [d \in ClassifiedDays |-> bucketFromDays1(d)]

\* C23: of two day counts d1 < d2 of one region, d1 has the step index that
\* is not the larger, and every step index lies in 1..N for the region's
\* step count N; for unitIndex of the first variant's bucketFromDays and for
\* remainingToStep of the final variant
C23_StepsNonDecreasing ==
    fnArg \in ClassifiedDays
        => /\ fnRes.fn = "bucketFromDays1"
                  => /\ fnRes.out.unitIndex \in 1..unitsPerStars(fnRes.out.stars)
                     /\ \A d2 \in ClassifiedDays :
                            (/\ fnArg < d2
                             /\ unitTable[d2].stars = fnRes.out.stars)
                                => fnRes.out.unitIndex <= unitTable[d2].unitIndex
           /\ fnRes.fn = "bucketFromDays"
                  => /\ stepOfDays(fnArg)
                            \in 1..stepsForBucket(fnRes.out.bucket)
                     /\ \A d2 \in ClassifiedDays :
                            (/\ fnArg < d2
                             /\ bucketFromDays(d2).region = fnRes.out.region)
                                => stepOfDays(fnArg) <= stepTable[d2]

\* ten days are on step 1 of weeks and eleven days on step 2
C23_Witness ==
    /\ fnRes.fn = "bucketFromDays"
    /\ fnArg = 10
    /\ fnRes.out.region = 3
    /\ stepOfDays(10) = 1
    /\ stepOfDays(11) = 2

---------------------------------------------------------------------------
(* addTask of the final variant on a planner whose reference date stays    *)
(* the day of the clock: with today = 2024-01-01 as day 0, 2024-01-04 is   *)
(* day 3 and 2024-02-01 is day 31.                                         *)

\* deadlines typed into the form
ScenarioDeadlines == (0 - DayMargin)..40

compactLabel_DaysOnly(task) == numberToString(task.remainingDays) \o <<"d">>

\* `${remainingDays}d`, `${Math.round(remainingDays / 7)}w`, ...
compactLabel(task) ==
    IF task.bucket = "days"
    THEN numberToString(task.remainingDays) \o <<"d">>
    ELSE IF task.bucket = "weeks"
    THEN numberToString(RoundDiv(task.remainingDays, 7)) \o <<"w">>
    ELSE IF task.bucket = "months"
    THEN numberToString(RoundDiv(task.remainingDays, 30)) \o <<"m">>
    ELSE numberToString(RoundDiv(task.remainingDays, 365)) \o <<"y">>

addTaskScenario ==
    \E newDeadline \in ScenarioDeadlines, hasText \in BOOLEAN :
        Idle /\ addTaskWith(newDeadline, hasText)

NextAdd == Mount \/ addTaskScenario

SpecAdd == Init /\ [][NextAdd]_vars

\* the task a step has appended
addedTask == tasks'[Len(tasks')]

\* C24: with today = 2024-01-01, addTask with deadline 2024-01-04 appends a
\* task of region 4, bucket days, remainingDays 3, labelled 3d, and with
\* deadline 2024-02-01 one of region 2, bucket months, remainingDays 31,
\* labelled 1m
C24_AddTaskScenarios ==
    [][(today = todayISO /\ Idle)
          => /\ addTaskWith(3, TRUE)
                    => /\ tasks' = Append(tasks, addedTask)
                       /\ addedTask.region = 4
                       /\ addedTask.bucket = "days"
                       /\ addedTask.remainingDays = 3
                       /\ compactLabel(addedTask) = <<"3", "d">>
             /\ addTaskWith(31, TRUE)
                    => /\ tasks' = Append(tasks, addedTask)
                       /\ addedTask.region = 2
                       /\ addedTask.bucket = "months"
                       /\ addedTask.remainingDays = 31
                       /\ compactLabel(addedTask) = <<"1", "m">>]_vars

\* both scenario tasks are in the list
C24_Witness ==
    /\ today = todayISO
    /\ Len(tasks) = 2
    /\ tasks[1].deadline = 3 /\ compactLabel(tasks[1]) = <<"3", "d">>
    /\ tasks[2].deadline = 31 /\ compactLabel(tasks[2]) = <<"1", "m">>

---------------------------------------------------------------------------
(* resolveProjectColor on pairs of tasks (specification SpecColor).        *)

BlankProjects == { <<>>, <<" ">>, <<" ", " ">> }
NamedProjects ==
    { <<"a">>, <<"A">>, <<" ", "a">>, <<"a", "b">>, <<"b", "a">>,
      <<"w", "o", "r", "k">>, <<"W", "o", "r", "k", " ">>, <<"h", "o", "m", "e">>,
      <<"g", "P", "l", "a", "n", "n", "e", "r">>, <<"7">> }
ColorProjects == BlankProjects \cup NamedProjects

\* explicit colours of the shape #rrggbb, possibly with spaces around them
ValidColors ==
    { <<"#", "f", "f", "0", "0", "0", "0">>,
      <<"#", "F", "F", "0", "0", "0", "0">>,
      <<" ", "#", "0", "e", "a", "5", "e", "9", " ">>,
      <<"#", "4", "7", "5", "5", "6", "9">>,
      <<"#", "A", "b", "C", "d", "E", "f">> }
InvalidColors ==
    { NoColor, <<>>, <<" ">>, <<"r", "e", "d">>, <<"#", "f", "f", "f">>,
      <<"#", "g", "g", "0", "0", "0", "0">>,
      <<"f", "f", "0", "0", "0", "0", "0">>,
      <<"#", "f", "f", "0", "0", "0", "0", "0">>,
      <<"#", "f", "f", " ", "0", "0", "0">> }
ExplicitColors == ValidColors \cup InvalidColors

ColorTask(project, projectColor) ==
    [project |-> project, projectColor |-> projectColor]
ColorTasks ==
    { ColorTask(p, c) : p \in ColorProjects, c \in ExplicitColors }

InitColor ==
    /\ AppInit
    /\ fnArg \in { <<a, b>> : a \in ColorTasks, b \in ColorTasks }
    /\ fnRes = NoResult

ApplyResolveProjectColor ==
    /\ fnRes = NoResult
    /\ fnRes' = [fn |-> "resolveProjectColor",
                 first |-> resolveProjectColor(fnArg[1].project, fnArg[1].projectColor),
                 second |-> resolveProjectColor(fnArg[2].project, fnArg[2].projectColor)]
    /\ UNCHANGED <<appVars, fnArg>>

NextColor == ApplyResolveProjectColor

SpecColor == InitColor /\ [][NextColor]_vars

PaletteColors == { PROJECT_COLOR_PALETTE[k] : k \in 1..Len(PROJECT_COLOR_PALETTE) }

\* what the claim says of one task and its resolved colour
resolvedAsClaimed(task, resolved) ==
    /\ task.projectColor \in ValidColors
           => toLowerCase(resolved) = toLowerCase(trim(task.projectColor))
    /\ (task.projectColor \in InvalidColors /\ task.project \in BlankProjects)
           => resolved = DEFAULT_PROJECT_COLOR
    /\ (task.projectColor \in InvalidColors /\ task.project \in NamedProjects)
           => resolved \in PaletteColors

\* C25: two tasks with the same non-empty project and no valid explicit
\* colour resolve to the same palette colour, a task with a blank project
\* and no valid explicit colour resolves to #475569, and a valid explicit
\* #rrggbb colour is the resolved colour whatever the project
C25_ResolveProjectColor ==
    fnRes.fn = "resolveProjectColor"
        => /\ resolvedAsClaimed(fnArg[1], fnRes.first)
           /\ resolvedAsClaimed(fnArg[2], fnRes.second)
           /\ ( /\ fnArg[1].project = fnArg[2].project
                /\ fnArg[1].project \in NamedProjects
                /\ fnArg[1].projectColor \in InvalidColors
                /\ fnArg[2].projectColor \in InvalidColors )
                  => fnRes.first = fnRes.second

\* one named project twice, each time without a valid explicit colour,
\* resolved to one colour of the palette
C25_Witness ==
    /\ fnRes.fn = "resolveProjectColor"
    /\ fnArg[1].project = <<"w", "o", "r", "k">>
    /\ fnArg[2].project = <<"w", "o", "r", "k">>
    /\ fnArg[1].projectColor = NoColor
    /\ fnArg[2].projectColor = <<"r", "e", "d">>
    /\ fnRes.first = fnRes.second
    /\ fnRes.first \in PaletteColors

---------------------------------------------------------------------------
(* Finished tasks and the reference date (specification Spec2).            *)

\* C26: a change of the reference date today leaves the region, bucket and
\* remainingDays of every task that was marked done as they were
C26_FinishedTasksKeepPlacement ==
    [][(lastOp'.name = "setToday" /\ today' # today)
          => \A i \in 1..Len(tasks) :
                tasks[i].finishedAt
                    => /\ i <= Len(tasks')
                       /\ tasks'[i].region = tasks[i].region
                       /\ tasks'[i].bucket = tasks[i].bucket
                       /\ tasks'[i].remainingDays = tasks[i].remainingDays]_vars

---------------------------------------------------------------------------
(* Ids of the tasks (specification Spec).                                  *)

\* C27: no two tasks of the list share an id
C27_IdsUnique ==
    \A i, j \in 1..Len(tasks) : tasks[i].id = tasks[j].id => i = j

---------------------------------------------------------------------------
(* The planner fed files written by hand (specification SpecFiles): a row  *)
(* due today whose region column says 1 and whose bucket column is empty,  *)
(* and a row due in 5 days with stale placement columns.                   *)

HandWrittenRows ==
    { Row(NoId, DateCell("empty", 0), DateCell("iso", 0),
          <<"1">>, <<>>, <<"4", "0", "0">>, FALSE),
      Row(NoId, DateCell("empty", 0), DateCell("iso", 5),
          <<"1">>, TextYears, <<"4", "0", "0">>, FALSE) }
HandWrittenFiles == [1..1 -> HandWrittenRows]

handleCSVFileHandWritten ==
    \E rows \in HandWrittenFiles : Idle /\ handleCSVFileWith(rows)

loadFromURLHandWritten ==
    \/ \E outcome \in {"throws", "notOk"} :
          Idle /\ loadFromURLWith(outcome, <<>>)
    \/ \E rows \in HandWrittenFiles : Idle /\ loadFromURLWith("ok", rows)

NextFiles ==
    \/ Mount
    \/ Reload
    \/ SetToday
    \/ SetMaxPerRegion
    \/ addTask
    \/ deleteTask
    \/ markDone
    \/ saveEdit
    \/ handleDotPointerDown
    \/ handleDotPointerMove
    \/ handleDotPointerUp
    \/ handleCSVFileHandWritten
    \/ loadFromURLHandWritten

SpecFiles == Init /\ [][NextFiles]_vars

\* C29: the bucket of every task of the list is the bucket of its region
\* (4 days, 3 weeks, 2 months, 1 years), the tasks parseCSV decodes from
\* the file's own region and bucket columns included
C29_BucketPairedWithRegion ==
    \A i \in 1..Len(tasks) :
        /\ tasks[i].region \in Regions
        /\ tasks[i].bucket = bucketByRegion(tasks[i].region)

---------------------------------------------------------------------------
(* First variant: daysFromBucket, the day count at the centre of a step,   *)
(* and its classification by bucketFromDays (specification SpecInverse).   *)

\* N, dMin and dMax of daysFromBucket's switch; case 1 is also the default
bucketRange(stars) ==
    CASE stars = 4 -> [N |-> 7, dMin |-> 1, dMax |-> 7]
      [] stars = 3 -> [N |-> 4, dMin |-> 8, dMax |-> 28]
      [] stars = 2 -> [N |-> 12, dMin |-> 29, dMax |-> 365]
      [] OTHER -> [N |-> 10, dMin |-> 366, dMax |-> 3650]

daysFromBucket_LowerEdge(b) ==
    LET range == bucketRange(b.stars)
        idx == clamp(b.unitIndex, 1, range.N)
    IN  RoundDiv(range.N * range.dMin + (idx - 1) * (range.dMax - range.dMin),
                 range.N)

\* Math.round(dMin + (idx - 0.5) / N * (dMax - dMin)), as the quotient of
\* 2 * N * dMin + (2 * idx - 1) * (dMax - dMin) by 2 * N
daysFromBucket(b) ==
    LET range == bucketRange(b.stars)
        idx == clamp(b.unitIndex, 1, range.N)
    IN  RoundDiv(2 * range.N * range.dMin
                     + (2 * idx - 1) * (range.dMax - range.dMin),
                 2 * range.N)

\* the TimeBucket values handed to daysFromBucket
StarsChoices == 0..5
UnitIndexChoices == -2..15

InitInverse ==
    /\ AppInit
    /\ fnArg \in [stars : StarsChoices, unitIndex : UnitIndexChoices]
    /\ fnRes = NoResult

ApplyDaysFromBucket ==
    /\ fnRes = NoResult
    /\ fnRes' = [fn |-> "daysFromBucket",
                 days |-> daysFromBucket(fnArg),
                 bucket |-> bucketFromDays1(daysFromBucket(fnArg))]
    /\ UNCHANGED <<appVars, fnArg>>

NextInverse == ApplyDaysFromBucket

SpecInverse == InitInverse /\ [][NextInverse]_vars

\* C28: for stars r in 1..4 and unitIndex s in 1..unitsPerStars(r),
\* bucketFromDays(daysFromBucket({stars: r, unitIndex: s})) has stars r and
\* unitIndex s
C28_InverseReclassifies ==
    (/\ fnRes.fn = "daysFromBucket"
     /\ fnArg.stars \in 1..4
     /\ fnArg.unitIndex \in 1..unitsPerStars(fnArg.stars))
        => /\ fnRes.bucket.stars = fnArg.stars
           /\ fnRes.bucket.unitIndex = fnArg.unitIndex

\* the last month step: day 351, classified as step 12 of the months
C28_Witness ==
    /\ fnRes.fn = "daysFromBucket"
    /\ fnArg = [stars |-> 2, unitIndex |-> 12]
    /\ fnRes.days = 351
    /\ fnRes.bucket.stars = 2
    /\ fnRes.bucket.unitIndex = 12

---------------------------------------------------------------------------
(* Startup of the final variant, effect by effect (specification           *)
(* SpecStartup).  The effects of the first render run with the values that *)
(* render saw, mounted = false and tasks = []; what they set is queued and *)
(* becomes the state of the next render, whose effects run in turn.  Mount *)
(* is the two steps taken together.                                        *)

persistTasksEffect_Unguarded(mountedSeen, tasksSeen) ==
    storage' = Persisted(tasksSeen)

\* the persist-tasks effect of a render that saw mounted and tasks
persistTasksEffect(mountedSeen, tasksSeen) ==
    IF ~mountedSeen THEN storage' = storage
    ELSE storage' = Persisted(tasksSeen)

\* the effects of the first render in their order: load-from-storage, then
\* persist-tasks and persist-maxPerRegion (which returns as mounted is false)
FirstRenderEffects ==
    /\ ~mounted
    /\ ~queued.pending
    /\ queued' = [pending |-> TRUE, tasks |-> storage,
                  maxPerRegion |-> storageMax]
    /\ persistTasksEffect(mounted, tasks)
    /\ storageMax' = storageMax
    /\ lastOp' = Op("firstRenderEffects", "")
    /\ UNCHANGED <<tasks, today, maxPerRegion, draggingId, mounted,
                   fnArg, fnRes>>

\* the render the queued updates cause, and its persist effects
Rerender ==
    /\ ~mounted
    /\ queued.pending
    /\ mounted' = TRUE
    /\ tasks' = queued.tasks
    /\ maxPerRegion' = queued.maxPerRegion
    /\ persistTasksEffect(TRUE, queued.tasks)
    /\ storageMax' = queued.maxPerRegion
    /\ queued' = NoUpdates
    /\ lastOp' = Op("mount", "")
    /\ UNCHANGED <<today, draggingId, fnArg, fnRes>>

NextStartup ==
    \/ FirstRenderEffects
    \/ Rerender
    \/ Reload
    \/ addTask
    \/ deleteTask
    \/ markDone
    \/ handleCSVFile

SpecStartup == Init /\ [][NextStartup]_vars

\* C30: no step taken before mounted is true changes the stored task list,
\* and the step that makes mounted true puts the stored list into tasks, so
\* the first write after startup holds every task that was stored
C30_StartupKeepsStoredTasks ==
    [][~mounted => /\ storage' = storage
                   /\ mounted' => tasks' = storage]_vars

\* a planner started over a non-empty stored list
C30_Witness ==
    /\ mounted
    /\ lastOp.name = "mount"
    /\ Len(storage) > 0
    /\ tasks = storage

=========================================================================
